---- MODULE Spec2Model ----
(***************************************************************************)
(* Model of the Spartan dashboard pages:                                   *)
(*   - src/app/negocio/page.tsx          business evaluation ("negocio")   *)
(*   - src/app/ventas/notaventas/page.tsx quote page and KPI panel         *)
(*   - src/app/comodatos/catalogos/page.tsx catalog viewer                 *)
(* JavaScript numbers are modelled exactly as rationals, together with the *)
(* special values NaN, +/-Infinity and undefined.                          *)
(***************************************************************************)
EXTENDS Integers, Sequences, FiniteSets, TLC

(* ----------------------------- bounds --------------------------------- *)
MaxSales == 2
MaxComs == 1
MaxLoads == 2
MaxReloads == 2
MaxKpiRows == 2
MaxEnvios == 2
MaxCsvRows == 1
MaxItems == 2
MaxUrlLen == 5

(* ------------------------- JavaScript numbers -------------------------- *)
Abs(x) == IF x < 0 THEN -x ELSE x

RECURSIVE Gcd(_, _)
Gcd(a, b) == IF b = 0 THEN a ELSE Gcd(b, a % b)

\* the rational n/d in lowest terms, d > 0
Q(n, d) ==
  LET s == IF d < 0 THEN -1 ELSE 1
      g == Gcd(Abs(n), Abs(d))
  IN [k |-> "num", n |-> (s * n) \div g, d |-> (s * d) \div g]

N(n) == [k |-> "num", n |-> n, d |-> 1]
NaN == [k |-> "nan", n |-> 0, d |-> 1]
Undefined == [k |-> "undef", n |-> 0, d |-> 1]
Inf(s) == [k |-> "inf", n |-> s, d |-> 1]

Sign(x) == IF x.n > 0 THEN 1 ELSE IF x.n < 0 THEN -1 ELSE 0
IsNaNish(x) == x.k \in {"nan", "undef"}

\* a + b
Add(a, b) ==
  IF IsNaNish(a) \/ IsNaNish(b) THEN NaN
  ELSE IF a.k = "inf" /\ b.k = "inf" THEN (IF a.n = b.n THEN a ELSE NaN)
  ELSE IF a.k = "inf" THEN a
  ELSE IF b.k = "inf" THEN b
  ELSE IF a.d = 1 /\ b.d = 1 THEN N(a.n + b.n)
  ELSE LET g == Gcd(a.d, b.d)
       IN Q(a.n * (b.d \div g) + b.n * (a.d \div g), (a.d \div g) * b.d)

\* a * b
Mul(a, b) ==
  IF IsNaNish(a) \/ IsNaNish(b) THEN NaN
  ELSE IF a.k = "inf" \/ b.k = "inf"
       THEN (IF Sign(a) = 0 \/ Sign(b) = 0 THEN NaN ELSE Inf(Sign(a) * Sign(b)))
  ELSE IF a.d = 1 /\ b.d = 1 THEN N(a.n * b.n)
  ELSE LET g1 == Gcd(Abs(a.n), b.d)
           g2 == Gcd(Abs(b.n), a.d)
       IN [k |-> "num", n |-> (a.n \div g1) * (b.n \div g2),
           d |-> (a.d \div g2) * (b.d \div g1)]

Neg(a) == IF a.k \in {"num", "inf"} THEN [a EXCEPT !.n = -a.n] ELSE NaN

\* a - b
Sub(a, b) == Add(a, Neg(b))

\* a / b
Div(a, b) ==
  IF IsNaNish(a) \/ IsNaNish(b) THEN NaN
  ELSE IF a.k = "inf" THEN (IF b.k = "inf" THEN NaN
                            ELSE Inf(IF Sign(b) < 0 THEN -a.n ELSE a.n))
  ELSE IF b.k = "inf" THEN N(0)
  ELSE IF b.n = 0 THEN (IF a.n = 0 THEN NaN ELSE Inf(Sign(a)))
  ELSE IF b = N(1) THEN a
  ELSE LET g1 == Gcd(Abs(a.n), Abs(b.n))
           g2 == Gcd(a.d, b.d)
           s == IF b.n < 0 THEN -1 ELSE 1
       IN [k |-> "num", n |-> s * (a.n \div g1) * (b.d \div g2),
           d |-> s * (a.d \div g2) * (b.n \div g1)]

\* a > b and a >= b (false whenever NaN is involved)
Gt(a, b) ==
  /\ ~IsNaNish(a) /\ ~IsNaNish(b)
  /\ IF a.k = "inf" THEN a.n > 0 /\ b # a
     ELSE IF b.k = "inf" THEN b.n < 0
     ELSE a.n * b.d > b.n * a.d
Ge(a, b) == ~IsNaNish(a) /\ ~IsNaNish(b) /\ (a = b \/ Gt(a, b))

\* truthiness of a number: 0, NaN and undefined are falsy
Truthy(x) == x.k = "inf" \/ (x.k = "num" /\ x.n # 0)
\* x || dflt
OrElse(x, dflt) == IF Truthy(x) THEN x ELSE dflt
\* x ?? dflt
Nullish(x, dflt) == IF x.k = "undef" THEN dflt ELSE x
\* Number.isFinite(x)
IsFinite(x) == x.k = "num"
\* Math.max(a, b)
MathMax(a, b) == IF IsNaNish(a) \/ IsNaNish(b) THEN NaN ELSE IF Gt(b, a) THEN b ELSE a

\* num(x): the argument is the value Number(x) yields
num(v) == IF IsFinite(v) THEN v ELSE N(0)

\* s.reduce((a, r) => a + r, 0) over the first n elements of s
RECURSIVE SumTo(_, _)
SumTo(s, n) == IF n = 0 THEN N(0) ELSE Add(SumTo(s, n - 1), s[n])
SumSeq(s) == SumTo(s, Len(s))

(* ------------------------------ strings -------------------------------- *)
\* a string is a sequence of one-character strings
\* white space String.prototype.trim removes
IsSpace(c) == c \in {" ", "\n", "\r", "\t"}
RECURSIVE TrimLeft(_)
TrimLeft(s) == IF s # << >> /\ IsSpace(Head(s)) THEN TrimLeft(Tail(s)) ELSE s
RECURSIVE TrimRight(_)
TrimRight(s) ==
  IF s # << >> /\ IsSpace(s[Len(s)]) THEN TrimRight(SubSeq(s, 1, Len(s) - 1)) ELSE s
Trim(s) == TrimRight(TrimLeft(s))
UpperChar(c) == CASE c = "a" -> "A" [] c = "b" -> "B" [] OTHER -> c
ToUpperCase(s) == [i \in 1..Len(s) |-> UpperChar(s[i])]

(* ============================= state =================================== *)
VARIABLES
  page,           \* the page mounted in the browser tab ("none" before navigation)
  crashed,        \* a render of the mounted page threw
  storage         \* window.localStorage: key -> stored text

\* negocio/page.tsx
VARIABLES
  sales,          \* SaleLine[]  ("eval.ventas")
  comodatos,      \* ComLine[]   ("eval.comodatos")
  months,         \* contract months ("eval.meses")
  commissionPct,  \* base commission ("eval.com.base")
  catalog,        \* Record<code, CatalogItem>, as the set of its items
  catalogUrl,     \* catalog sheet URL ("eval.catalog.url")
  loads,          \* runs of the catalog effect, in the order they started
  envios,         \* invocations of descargarYEnviar, in order
  clienteNombre,  \* "eval.cliente.nombre"
  rut,            \* "eval.cliente.rut"
  direccion,      \* "eval.cliente.dir"
  ejecutivo,      \* "eval.cliente.ej"
  logoUrl,        \* "eval.pdf.logoUrl"
  fechaEval,      \* evaluation date (not persisted)
  adminLevel,     \* role read from the "admin" URL parameter
  held            \* the persisted values the page held when it was last unmounted

\* ventas/notaventas/page.tsx: quote page
VARIABLES
  clientes,       \* client rows
  catalogo,       \* catalog rows
  loadError,      \* inline error string, "" for null
  loadingData,    \* "Cargando" flag
  lastUpdated,    \* number of completed loads that stamped lastUpdated
  qloads,         \* runs of the mount effect and of reloadData
  data            \* QuoteData: items, taxPct, client, issuer

\* ventas/notaventas/page.tsx: KPI panel (HomeMenu)
VARIABLES
  kpiData,        \* string[][] rows of the Metas sheet
  kpiLoad         \* the run of fetchData

\* the CSV parsers (negocio/page.tsx, ventas/notaventas/page.tsx)
VARIABLES
  csvTable,       \* the sheet a CSV text was exported from: header row, data rows
  csvText,        \* the CSV text served
  csvOut          \* the parser applied to it and the objects it returned

\* comodatos/catalogos/page.tsx
VARIABLES
  pdfUrl,         \* catalog PDF URL ("catalogo.pdf.url"): << text >>, << >> for null
  useGoogleViewer \* the "Usar visor de Google" checkbox

envVars == <<page, crashed, storage>>
viewerVars == <<pdfUrl, useGoogleViewer>>
editVars == <<sales, comodatos, months, commissionPct>>
catVars == <<catalog, catalogUrl, loads>>
quoteVars == <<clientes, catalogo, loadError, loadingData, lastUpdated, qloads>>
kpiVars == <<kpiData, kpiLoad>>
csvVars == <<csvTable, csvText, csvOut>>
formVars == <<clienteNombre, rut, direccion, ejecutivo, logoUrl, fechaEval, adminLevel>>
moreVars == <<formVars, held, data, csvVars>>
restVars == <<page, crashed, envios, quoteVars, kpiVars, viewerVars, moreVars>>

(* --------------------------- localStorage ------------------------------ *)
\* what getItem(key) finds: nothing, a text that is not JSON, the JSON text
\* "null", or the JSON text of a value (held in a one-element tuple)
Absent == [kind |-> "absent", v |-> << >>]
Garbage == [kind |-> "garbage", v |-> << >>]
JsonNull == [kind |-> "null", v |-> << >>]
Json(v) == [kind |-> "json", v |-> <<v>>]

\* JSON.stringify of a number: NaN and the infinities are written as null,
\* an undefined field is left out (and reads back as undefined)
Null == [k |-> "null", n |-> 0, d |-> 1]
JsonNum(x) == IF x.k \in {"nan", "inf"} THEN Null ELSE x
JsonSale(l) == [l EXCEPT !.kilos = JsonNum(l.kilos), !.qty = JsonNum(l.qty),
                         !.priceKg = JsonNum(l.priceKg),
                         !.priceListaKg = JsonNum(l.priceListaKg),
                         !.costKg = JsonNum(l.costKg)]
JsonCom(l) == [l EXCEPT !.priceContract = JsonNum(l.priceContract), !.qty = JsonNum(l.qty)]
JsonSales(ls) == [i \in 1..Len(ls) |-> JsonSale(ls[i])]
JsonComs(ls) == [i \in 1..Len(ls) |-> JsonCom(ls[i])]

\* the hook's effect: setItem(key, JSON.stringify(state)) after a state change
\* mutant: the effect writes nothing
Stored_NoWrite(key, v) == storage
Stored(key, v) == [storage EXCEPT ![key] = Json(v)]
vars == <<envVars, editVars, catVars, envios, quoteVars, kpiVars, viewerVars, moreVars>>

(* ------------------------- catalog contents ---------------------------- *)
\* rows a catalog sheet serves; a missing column reads as undefined
SheetRowsA ==
  << [code |-> <<"a", "1">>, name |-> "Detergente 5", price_list |-> N(9),
      cost |-> Undefined, kilos |-> Undefined],
     [code |-> <<" ", "A", "1">>, name |-> "Detergente", price_list |-> N(4),
      cost |-> N(2), kilos |-> N(5)],
     [code |-> << >>, name |-> "sin codigo", price_list |-> NaN,
      cost |-> N(1), kilos |-> N(1)] >>

SheetRowsB ==
  << [code |-> <<"A", "1">>, name |-> "Detergente", price_list |-> N(7),
      cost |-> N(2), kilos |-> N(5)] >>

\* a sheet URL, by the spreadsheet id and gid its text holds ("" when it holds none)
UrlA == [id |-> "A", gid |-> "0"]
UrlB == [id |-> "B", gid |-> ""]
UrlNoId == [id |-> "", gid |-> ""]
DEFAULT_CATALOG_URL == UrlA
Urls == {UrlA, UrlB, UrlNoId}
normalizeGoogleSheetUrl(url) ==
  [id |-> url.id, gid |-> IF url.gid = "" THEN "0" ELSE url.gid]
\* the rows the sheet behind a spreadsheet id serves
SheetRows(id) == IF id = "A" THEN SheetRowsA ELSE SheetRowsB

\* the catalog effect's loop over the rows: later rows overwrite earlier ones
RECURSIVE CatalogFromRows(_)
CatalogFromRows(rows) ==
  IF rows = << >> THEN {}
  ELSE LET r == rows[Len(rows)]
           rest == CatalogFromRows(SubSeq(rows, 1, Len(rows) - 1))
           code == ToUpperCase(Trim(r.code))
       IN IF code = << >> THEN rest
          ELSE {c \in rest : c.code # code} \cup
               { [code |-> code, name |-> r.name,
                  price_list |-> num(r.price_list),
                  cost |-> IF r.cost # Undefined THEN num(r.cost) ELSE Undefined,
                  kilos |-> IF r.kilos # Undefined THEN num(r.kilos) ELSE N(1)] }

\* options: the catalog items as suggestion entries
Option(c) ==
  [code |-> c.code, name |-> c.name,
   kilos |-> num(Nullish(c.kilos, N(1))),
   price |-> num(Nullish(c.price_list, N(0))),
   cost |-> IF c.cost # Undefined THEN num(c.cost) ELSE Undefined]
options == {Option(c) : c \in catalog}

\* mapByCode.get(key): the option or "none"
HasCode(key) == \E o \in options : ToUpperCase(o.code) = key
mapByCode(key) == CHOOSE o \in options : ToUpperCase(o.code) = key

(* --------------------------- line editing ------------------------------ *)
\* values Number(e.target.value) yields for a numeric input
QtyInputs == {N(0), N(1)}
PriceInputs == {N(3)}
ComPriceInputs == {N(6)}
ComQtyInputs == {N(2)}
\* texts typed in a code field
CodeInputs == { <<"a", "1", " ">>, <<"Z">> }

NewSale == [code |-> << >>, name |-> "", kilos |-> N(1), qty |-> N(1), priceKg |-> N(0),
            priceListaKg |-> Undefined, costKg |-> Undefined]
NewCom == [code |-> << >>, name |-> "", priceContract |-> N(0), qty |-> N(1)]

RemoveAt(s, i) == SubSeq(s, 1, i - 1) \o SubSeq(s, i + 1, Len(s))

addSale ==
  /\ page = "negocio" /\ ~crashed
  /\ Len(sales) < MaxSales
  /\ sales' = Append(sales, NewSale)
  /\ storage' = Stored("eval.ventas", JsonSales(sales'))
  /\ UNCHANGED <<comodatos, months, commissionPct, catVars, restVars>>

addCom ==
  /\ page = "negocio" /\ ~crashed
  /\ Len(comodatos) < MaxComs
  /\ comodatos' = Append(comodatos, NewCom)
  /\ storage' = Stored("eval.comodatos", JsonComs(comodatos'))
  /\ UNCHANGED <<sales, months, commissionPct, catVars, restVars>>

rmSale ==
  \E i \in 1..Len(sales) :
    /\ page = "negocio" /\ ~crashed
    /\ sales' = RemoveAt(sales, i)
    /\ storage' = Stored("eval.ventas", JsonSales(sales'))
    /\ UNCHANGED <<comodatos, months, commissionPct, catVars, restVars>>

rmCom ==
  \E i \in 1..Len(comodatos) :
    /\ page = "negocio" /\ ~crashed
    /\ comodatos' = RemoveAt(comodatos, i)
    /\ storage' = Stored("eval.comodatos", JsonComs(comodatos'))
    /\ UNCHANGED <<sales, months, commissionPct, catVars, restVars>>

SetSaleQty ==
  \E i \in 1..Len(sales), v \in QtyInputs :
    /\ page = "negocio" /\ ~crashed
    /\ sales' = [sales EXCEPT ![i].qty = v]
    /\ storage' = Stored("eval.ventas", JsonSales(sales'))
    /\ UNCHANGED <<comodatos, months, commissionPct, catVars, restVars>>

SetSalePriceKg ==
  \E i \in 1..Len(sales), v \in PriceInputs :
    /\ page = "negocio" /\ ~crashed
    /\ sales' = [sales EXCEPT ![i].priceKg = v]
    /\ storage' = Stored("eval.ventas", JsonSales(sales'))
    /\ UNCHANGED <<comodatos, months, commissionPct, catVars, restVars>>

SetComPrice ==
  \E i \in 1..Len(comodatos), v \in ComPriceInputs :
    /\ page = "negocio" /\ ~crashed
    /\ comodatos' = [comodatos EXCEPT ![i].priceContract = v]
    /\ storage' = Stored("eval.comodatos", JsonComs(comodatos'))
    /\ UNCHANGED <<sales, months, commissionPct, catVars, restVars>>

SetComQty ==
  \E i \in 1..Len(comodatos), v \in ComQtyInputs :
    /\ page = "negocio" /\ ~crashed
    /\ comodatos' = [comodatos EXCEPT ![i].qty = v]
    /\ storage' = Stored("eval.comodatos", JsonComs(comodatos'))
    /\ UNCHANGED <<sales, months, commissionPct, catVars, restVars>>

\* mutant: the sale price is taken from the catalog even when one is set
FilledSale_Overwrite(l, o) ==
  [l EXCEPT !.code = o.code,
            !.name = o.name,
            !.kilos = OrElse(o.kilos, N(1)),
            !.priceListaKg = OrElse(o.price, N(0)),
            !.priceKg = OrElse(o.price, N(0)),
            !.costKg = IF o.cost # Undefined THEN o.cost ELSE l.costKg]
\* the line fillFromCode leaves at index i for catalog option o
FilledSale(l, o) ==
  [l EXCEPT !.code = o.code,
            !.name = o.name,
            !.kilos = OrElse(o.kilos, N(1)),
            !.priceListaKg = OrElse(o.price, N(0)),
            !.priceKg = IF l.priceKg = N(0) THEN OrElse(o.price, N(0)) ELSE l.priceKg,
            !.costKg = IF o.cost # Undefined THEN o.cost ELSE l.costKg]

fillFromCodeAt(i, code) ==
  LET key == ToUpperCase(Trim(code)) IN
  /\ page = "negocio" /\ ~crashed
  /\ sales' = IF HasCode(key) THEN [sales EXCEPT ![i] = FilledSale(sales[i], mapByCode(key))]
              ELSE sales
  /\ storage' = Stored("eval.ventas", JsonSales(sales'))
  /\ UNCHANGED <<comodatos, months, commissionPct, catVars, restVars>>
fillFromCode ==
  \E i \in 1..Len(sales), code \in CodeInputs : fillFromCodeAt(i, code)

FilledCom(l, o) ==
  [l EXCEPT !.code = o.code,
            !.name = o.name,
            !.priceContract = IF l.priceContract = N(0) THEN OrElse(o.price, N(0))
                              ELSE l.priceContract]

fillComFromCodeAt(i, code) ==
  LET key == ToUpperCase(Trim(code)) IN
  /\ page = "negocio" /\ ~crashed
  /\ comodatos' = IF HasCode(key)
                  THEN [comodatos EXCEPT ![i] = FilledCom(comodatos[i], mapByCode(key))]
                  ELSE comodatos
  /\ storage' = Stored("eval.comodatos", JsonComs(comodatos'))
  /\ UNCHANGED <<sales, months, commissionPct, catVars, restVars>>
fillComFromCode ==
  \E i \in 1..Len(comodatos), code \in CodeInputs : fillComFromCodeAt(i, code)

\* text fields of "Parametros y Cliente": set<Field>(e.target.value)
TextInputs == {"ACME Ltda."}
SetClienteNombre ==
  \E v \in TextInputs :
    /\ page = "negocio" /\ ~crashed
    /\ clienteNombre' = v
    /\ storage' = Stored("eval.cliente.nombre", v)
    /\ UNCHANGED <<page, crashed, editVars, catVars, envios, quoteVars, kpiVars, viewerVars,
                   rut, direccion, ejecutivo, logoUrl, fechaEval, adminLevel, held, data, csvVars>>
SetRut ==
  \E v \in TextInputs :
    /\ page = "negocio" /\ ~crashed
    /\ rut' = v
    /\ storage' = Stored("eval.cliente.rut", v)
    /\ UNCHANGED <<page, crashed, editVars, catVars, envios, quoteVars, kpiVars, viewerVars,
                   clienteNombre, direccion, ejecutivo, logoUrl, fechaEval, adminLevel,
                   held, data, csvVars>>
SetDireccion ==
  \E v \in TextInputs :
    /\ page = "negocio" /\ ~crashed
    /\ direccion' = v
    /\ storage' = Stored("eval.cliente.dir", v)
    /\ UNCHANGED <<page, crashed, editVars, catVars, envios, quoteVars, kpiVars, viewerVars,
                   clienteNombre, rut, ejecutivo, logoUrl, fechaEval, adminLevel, held, data, csvVars>>
SetEjecutivo ==
  \E v \in TextInputs :
    /\ page = "negocio" /\ ~crashed
    /\ ejecutivo' = v
    /\ storage' = Stored("eval.cliente.ej", v)
    /\ UNCHANGED <<page, crashed, editVars, catVars, envios, quoteVars, kpiVars, viewerVars,
                   clienteNombre, rut, direccion, logoUrl, fechaEval, adminLevel, held, data, csvVars>>
\* "Logo PDF" input (shown when adminLevel === 2)
LogoInputs == {"data:image/png;base64,AAAA"}
SetLogoUrl ==
  \E v \in LogoInputs :
    /\ page = "negocio" /\ ~crashed
    /\ adminLevel = 2
    /\ logoUrl' = v
    /\ storage' = Stored("eval.pdf.logoUrl", v)
    /\ UNCHANGED <<page, crashed, editVars, catVars, envios, quoteVars, kpiVars, viewerVars,
                   clienteNombre, rut, direccion, ejecutivo, fechaEval, adminLevel, held,
                   data, csvVars>>
\* "Fecha evaluacion" input: not persisted
DateInputs == {"2026-12-01"}
SetFechaEval ==
  \E v \in DateInputs :
    /\ page = "negocio" /\ ~crashed
    /\ fechaEval' = v
    /\ UNCHANGED <<envVars, editVars, catVars, envios, quoteVars, kpiVars, viewerVars,
                   clienteNombre, rut, direccion, ejecutivo, logoUrl, adminLevel, held,
                   data, csvVars>>

\* mutant: "Limpiar" also puts the contract parameters back to their defaults
limpiarTodo_ResetsParams ==
  /\ page = "negocio" /\ ~crashed
  /\ clienteNombre' = "" /\ rut' = "" /\ direccion' = "" /\ ejecutivo' = ""
  /\ sales' = << >> /\ comodatos' = << >>
  /\ months' = N(24) /\ commissionPct' = Q(105, 1000)
  /\ storage' = [k \in DOMAIN storage |->
                   CASE k = "eval.cliente.nombre" -> Json("")
                     [] k = "eval.cliente.rut" -> Json("")
                     [] k = "eval.cliente.dir" -> Json("")
                     [] k = "eval.cliente.ej" -> Json("")
                     [] k = "eval.ventas" -> Json(<< >>)
                     [] k = "eval.comodatos" -> Json(<< >>)
                     [] k = "eval.meses" -> Json(N(24))
                     [] k = "eval.com.base" -> Json(Q(105, 1000))
                     [] OTHER -> storage[k]]
  /\ UNCHANGED <<page, crashed, catVars, envios, quoteVars, kpiVars,
                 viewerVars, logoUrl, fechaEval, adminLevel, held, data, csvVars>>
\* "Limpiar": six setters, each followed by its hook's write to localStorage
limpiarTodo ==
  /\ page = "negocio" /\ ~crashed
  /\ clienteNombre' = "" /\ rut' = "" /\ direccion' = "" /\ ejecutivo' = ""
  /\ sales' = << >> /\ comodatos' = << >>
  /\ storage' = [k \in DOMAIN storage |->
                   CASE k = "eval.cliente.nombre" -> Json("")
                     [] k = "eval.cliente.rut" -> Json("")
                     [] k = "eval.cliente.dir" -> Json("")
                     [] k = "eval.cliente.ej" -> Json("")
                     [] k = "eval.ventas" -> Json(<< >>)
                     [] k = "eval.comodatos" -> Json(<< >>)
                     [] OTHER -> storage[k]]
  /\ UNCHANGED <<page, crashed, months, commissionPct, catVars, envios, quoteVars, kpiVars,
                 viewerVars, logoUrl, fechaEval, adminLevel, held, data, csvVars>>

\* "Meses contrato": setMonths(Math.max(1, Number(e.target.value)))
MonthInputs == {N(-2), N(0), Q(1, 2)}
\* mutant: the input value is stored without the lower clamp
MonthsFromInput_NoClamp(v) == v
MonthsFromInput(v) == MathMax(N(1), v)
SetMonths ==
  \E v \in MonthInputs :
    /\ page = "negocio" /\ ~crashed
    /\ months' = MonthsFromInput(v)
    /\ storage' = Stored("eval.meses", JsonNum(months'))
    /\ UNCHANGED <<sales, comodatos, commissionPct, catVars, restVars>>

\* "% Comision base": setCommissionPct(Number(e.target.value))
CommissionInputs == {Q(1, 5)}
SetCommissionPct ==
  \E v \in CommissionInputs :
    /\ page = "negocio" /\ ~crashed
    /\ commissionPct' = v
    /\ storage' = Stored("eval.com.base", JsonNum(commissionPct'))
    /\ UNCHANGED <<sales, comodatos, months, catVars, restVars>>

(* ------------------------------ calc ----------------------------------- *)
\* step 0: per-line metrics
LineMetrics(l) ==
  LET kilosMes == Mul(OrElse(l.qty, N(0)), OrElse(l.kilos, N(1)))
      venta == Mul(OrElse(l.priceKg, N(0)), kilosMes)
      costKg == IF l.costKg # Undefined THEN l.costKg ELSE N(0)
      costo == Mul(OrElse(costKg, N(0)), kilosMes)
      mgnDirecto == Sub(venta, costo)
  IN [kilosMes |-> kilosMes, venta |-> venta, costo |-> costo, mgnDirecto |-> mgnDirecto,
      mgnDirPct |-> IF Gt(venta, N(0)) THEN Div(mgnDirecto, venta) ELSE N(0)]

\* step 1: contract total and pro-rated monthly loan
ComTotal(r) == Mul(OrElse(r.priceContract, N(0)), OrElse(r.qty, N(0)))
ComodatoMensualOf(total, m) == IF Gt(m, N(0)) THEN Div(total, m) ELSE N(0)

\* step 2: global loan / sales ratio
RelOf(cm, vt) == IF Gt(vt, N(0)) THEN Div(cm, vt) ELSE N(0)

\* step 4: margins and final commission per line
\* mutant: the monthly loan is split evenly, ignoring the line's weight
CdtoAsignadoOf_NoWeight(kilosMes, tk, cm) == IF Gt(tk, N(0)) THEN cm ELSE N(0)
\* mutant: the commission ignores the loan / sales ratio
ComisionOf_NoRel(pctBase, rl, venta) == Mul(pctBase, venta)
CdtoAsignadoOf(kilosMes, tk, cm) ==
  IF Gt(tk, N(0)) THEN Mul(Div(kilosMes, tk), cm) ELSE N(0)
ComisionOf(pctBase, rl, venta) == Mul(Mul(pctBase, Sub(N(1), rl)), venta)
WithMgn(r, tk, cm, rl) ==
  LET cdtoAsignado == CdtoAsignadoOf(r.kilosMes, tk, cm)
      comision == ComisionOf(commissionPct, rl, r.venta)
      mgn2 == Sub(r.mgnDirecto, cdtoAsignado)
      mgn3 == Sub(mgn2, comision)
  IN [kilosMes |-> r.kilosMes, venta |-> r.venta, costo |-> r.costo,
      mgnDirecto |-> r.mgnDirecto, mgnDirPct |-> r.mgnDirPct,
      cdtoAsignado |-> cdtoAsignado, comision |-> comision,
      mgn2 |-> mgn2, mgn2Pct |-> IF Gt(r.venta, N(0)) THEN Div(mgn2, r.venta) ELSE N(0),
      mgn3 |-> mgn3, mgn3Pct |-> IF Gt(r.venta, N(0)) THEN Div(mgn3, r.venta) ELSE N(0)]

\* the memoized calculation over sales, comodatos, commissionPct and months
calc ==
  LET lines == [i \in 1..Len(sales) |-> LineMetrics(sales[i])]
      ventaTotal == SumSeq([i \in 1..Len(sales) |-> lines[i].venta])
      totalComodato == SumSeq([i \in 1..Len(comodatos) |-> ComTotal(comodatos[i])])
      comodatoMensual == ComodatoMensualOf(totalComodato, months)
      rel == RelOf(comodatoMensual, ventaTotal)
      totalKilos == SumSeq([i \in 1..Len(sales) |-> lines[i].kilosMes])
      withMgn == [i \in 1..Len(sales) |->
                    WithMgn(lines[i], totalKilos, comodatoMensual, rel)]
      mgn3Total == SumSeq([i \in 1..Len(sales) |-> withMgn[i].mgn3])
      comisionTotal == SumSeq([i \in 1..Len(sales) |-> withMgn[i].comision])
  IN [lines |-> withMgn,
      ventaTotal |-> ventaTotal,
      totalComodato |-> totalComodato,
      comodatoMensual |-> comodatoMensual,
      rel |-> rel,
      mgnFinalPct |-> IF Gt(ventaTotal, N(0)) THEN Div(mgn3Total, ventaTotal) ELSE N(0),
      comFinalPct |-> IF Gt(ventaTotal, N(0)) THEN Div(comisionTotal, ventaTotal) ELSE N(0)]

VIABILITY_THRESHOLD_Zero == N(0)
VIABILITY_THRESHOLD == Q(5, 1000)
isViable == Ge(calc.mgnFinalPct, VIABILITY_THRESHOLD)

(* ================= negocio/page.tsx: catalog effect ==================== *)
\* how the CSV export request / the GViz request of a load can end
CsvOutcomes == {"neterr", "notok", "empty", "rows"}
GvizOutcomes == {"notok", "badformat", "rows"}

\* a run of the effect for url: an URL without spreadsheet id throws at once
StartLoad(url) ==
  IF normalizeGoogleSheetUrl(url).id = ""
  THEN [url |-> url, csv |-> "none", gviz |-> "none", st |-> "noop"]
  ELSE [url |-> url, csv |-> "pending", gviz |-> "none", st |-> "running"]

LoadedCatalog(url) == CatalogFromRows(SheetRows(normalizeGoogleSheetUrl(url).id))

\* what a run does with the catalog once its rows arrive: setCatalog(map),
\* whichever URL is the current one by then
CatalogAfterLoad(url) == LoadedCatalog(url)

\* "Catalogo" input (shown when adminLevel === 2): setCatalogUrl(e.target.value); the effect
\* with dependency [catalogUrl] then starts a run for the new URL
SetCatalogUrl ==
  \E u \in Urls \ {catalogUrl} :
    /\ page = "negocio" /\ ~crashed
    /\ adminLevel = 2
    /\ Len(loads) < MaxLoads
    /\ catalogUrl' = u
    /\ loads' = Append(loads, StartLoad(u))
    /\ storage' = Stored("eval.catalog.url", u)
    /\ UNCHANGED <<page, crashed, editVars, catalog, envios, quoteVars, kpiVars, viewerVars, moreVars>>

\* fetchCsv of run i settles: rows end the run with setCatalog, any failure
\* makes loadSheetSmart request GViz
CsvResponds ==
  \E i \in 1..Len(loads), o \in CsvOutcomes :
    /\ page = "negocio" /\ ~crashed
    /\ loads[i].csv = "pending"
    /\ IF o = "rows"
       THEN /\ loads' = [loads EXCEPT ![i].csv = o, ![i].st = "set"]
            /\ catalog' = CatalogAfterLoad(loads[i].url)
       ELSE /\ loads' = [loads EXCEPT ![i].csv = o, ![i].gviz = "pending"]
            /\ catalog' = catalog
    /\ UNCHANGED <<envVars, editVars, catalogUrl, envios, quoteVars, kpiVars, viewerVars, moreVars>>

\* fetchGviz of run i settles: rows end the run with setCatalog, a failure
\* is thrown to the effect's catch, which does nothing
GvizResponds ==
  \E i \in 1..Len(loads), o \in GvizOutcomes :
    /\ page = "negocio" /\ ~crashed
    /\ loads[i].gviz = "pending"
    /\ IF o = "rows"
       THEN /\ loads' = [loads EXCEPT ![i].gviz = o, ![i].st = "set"]
            /\ catalog' = CatalogAfterLoad(loads[i].url)
       ELSE /\ loads' = [loads EXCEPT ![i].gviz = o, ![i].st = "noop"]
            /\ catalog' = catalog
    /\ UNCHANGED <<envVars, editVars, catalogUrl, envios, quoteVars, kpiVars, viewerVars, moreVars>>

(* ================= notaventas/page.tsx: quote page loads =============== *)
\* the quote a new page starts from
DEFAULT_QUOTE ==
  [items |-> << >>, taxPct |-> N(19),
   client |-> [name |-> "", rut |-> "", address |-> ""],
   issuer |-> [name |-> "Spartan de Chile Ltda.", paymentTerms |-> "30 dias"]]

\* a request ends with a text (r.ok) or fails (fetch rejects or !r.ok:
\* fetchCsvNoStore throws either way)
FetchOutcomes == {"ok", "failed"}

\* rows parseCSV reads from the served client sheet and catalog sheet
ClientRows == << "76.111.111-1" >>
CatalogRows ==
  << [code |-> <<"A", "B", "1">>, name |-> <<"L", "i", "m">>,
      kilos |-> <<"5">>, price_list |-> <<"1", ".", "9", "9", "0">>],
     [code |-> <<"A", "B">>, name |-> <<"L", "i", "m", "o_acute", "n", " ", "A", "B", "1">>,
      kilos |-> <<"1", ",", "5">>, price_list |-> <<"3">>],
     [code |-> <<"L", "I", "M">>, name |-> <<"a", "b">>,
      kilos |-> << >>, price_list |-> <<"$", " ", "1", "0">>] >>

\* one list's chain of a load: internal API first, direct Google CSV second
\* mutant: the direct CSV is requested together with the API request
NewChain_Eager == [api |-> "pending", direct |-> "pending"]
NewChain == [api |-> "pending", direct |-> "none"]
ChainOk(c) == c.api = "ok" \/ c.direct = "ok"
ChainFailed(c) == c.direct = "failed"
ChainDone(c) == ChainOk(c) \/ ChainFailed(c)

NewQLoad(kind) == [kind |-> kind, cli |-> NewChain, cat |-> NewChain, st |-> "running"]

\* fetchClientesAll / fetchCatalogCSV: the rows, or [] when both requests failed
RowsOrEmpty(c, rows) == IF ChainOk(c) THEN rows ELSE << >>

\* what the awaiting code of load l does once a response has arrived:
\* the mount effect waits for both helpers (which never reject) and sets both
\* lists; reloadData's Promise.all rejects with the first chain that failed
\* on both requests and sets both lists only if both chains delivered
QSettled(l) ==
  IF l.st # "running" THEN l
  ELSE IF l.kind = "mount"
       THEN IF ChainDone(l.cli) /\ ChainDone(l.cat) THEN [l EXCEPT !.st = "set"] ELSE l
       ELSE IF ChainFailed(l.cli) \/ ChainFailed(l.cat) THEN [l EXCEPT !.st = "error"]
            ELSE IF ChainOk(l.cli) /\ ChainOk(l.cat) THEN [l EXCEPT !.st = "set"]
            ELSE l

\* state updates of load i when its record goes from l to QSettled(l)
QApply(i, l) ==
  LET s == QSettled(l) IN
  /\ qloads' = [qloads EXCEPT ![i] = s]
  /\ IF l.st = "running" /\ s.st = "set"
     THEN /\ clientes' = RowsOrEmpty(s.cli, ClientRows)
          /\ catalogo' = RowsOrEmpty(s.cat, CatalogRows)
          /\ lastUpdated' = <<i>>
          /\ loadError' = loadError
          /\ loadingData' = FALSE
     ELSE IF l.st = "running" /\ s.st = "error"
     THEN /\ loadError' = << "Error al traer" >>
          /\ loadingData' = FALSE
          /\ UNCHANGED <<clientes, catalogo, lastUpdated>>
     ELSE UNCHANGED <<clientes, catalogo, lastUpdated, loadError, loadingData>>

\* "Actualizar datos" (disabled while loadingData)
reloadData ==
  /\ page = "notaventas" /\ ~crashed
  /\ ~loadingData
  /\ Len(qloads) < 1 + MaxReloads
  /\ loadingData' = TRUE
  /\ loadError' = << >>
  /\ qloads' = Append(qloads, NewQLoad("reload"))
  /\ UNCHANGED <<envVars, editVars, catVars, envios, clientes, catalogo, lastUpdated,
                 kpiVars, viewerVars, moreVars>>

\* the /api/sheets request of one list of load i settles
ApiResponds ==
  \E i \in 1..Len(qloads), which \in {"cli", "cat"}, o \in FetchOutcomes :
    /\ page = "notaventas" /\ ~crashed
    /\ qloads[i][which].api = "pending"
    /\ LET c == qloads[i][which]
           c2 == IF o = "ok" THEN [c EXCEPT !.api = "ok"]
                 ELSE [c EXCEPT !.api = "failed", !.direct = "pending"]
       IN QApply(i, [qloads[i] EXCEPT ![which] = c2])
    /\ UNCHANGED <<envVars, editVars, catVars, envios, kpiVars, viewerVars, moreVars>>

\* the direct Google Sheets CSV request of one list of load i settles
DirectResponds ==
  \E i \in 1..Len(qloads), which \in {"cli", "cat"}, o \in FetchOutcomes :
    /\ page = "notaventas" /\ ~crashed
    /\ qloads[i][which].direct = "pending"
    /\ QApply(i, [qloads[i] EXCEPT ![which].direct = o])
    /\ UNCHANGED <<envVars, editVars, catVars, envios, kpiVars, viewerVars, moreVars>>

(* ================= notaventas/page.tsx: KPI page (HomeMenu) ============ *)
\* a GViz cell value: null, a text, or a number
NullCell == [t |-> "null", s |-> << >>, x |-> N(0)]
Str(s) == [t |-> "str", s |-> s, x |-> N(0)]
Num(x) == [t |-> "num", s |-> << >>, x |-> x]

Digits == <<"0", "1", "2", "3", "4", "5", "6", "7", "8", "9">>
IsDigit(c) == \E i \in 1..10 : Digits[i] = c
DigitVal(c) == (CHOOSE i \in 1..10 : Digits[i] = c) - 1

RECURSIVE DigitsVal(_)
DigitsVal(s) == IF s = << >> THEN 0
                ELSE DigitsVal(SubSeq(s, 1, Len(s) - 1)) * 10 + DigitVal(s[Len(s)])

RECURSIVE Pow10(_)
Pow10(k) == IF k = 0 THEN 1 ELSE 10 * Pow10(k - 1)

RECURSIVE NatToString(_)
NatToString(n) == IF n < 10 THEN << Digits[n + 1] >>
                  ELSE NatToString(n \div 10) \o << Digits[(n % 10) + 1] >>

\* Number.prototype.toString for an integer or a number with one decimal
NumberToString(x) ==
  LET a == Abs(x.n)
      whole == NatToString(a \div x.d)
      frac == IF x.d = 1 THEN << >> ELSE << ".", Digits[(((a * 10) \div x.d) % 10) + 1] >>
  IN (IF x.n < 0 THEN << "-" >> ELSE << >>) \o whole \o frac

\* value.toString()
CellToString(c) == IF c.t = "str" THEN c.s ELSE NumberToString(c.x)

\* .replace(/[^0-9.-]+/g, ""): only digits, "." and "-" are kept
KeepNumeric(s) == SelectSeq(s, LAMBDA c : IsDigit(c) \/ c = "." \/ c = "-")

\* Number(s) for a text of digits, "." and "-": "" is 0, a decimal literal
\* with an optional leading "-" is its value, anything else is NaN
StringToNumber(s) ==
  IF s = << >> THEN N(0)
  ELSE LET neg == s[1] = "-"
           b == IF neg THEN Tail(s) ELSE s
           dots == { i \in 1..Len(b) : b[i] = "." }
           ok == /\ \A i \in 1..Len(b) : b[i] # "-"
                 /\ Cardinality(dots) <= 1
                 /\ \E i \in 1..Len(b) : IsDigit(b[i])
       IN IF ~ok THEN NaN
          ELSE LET p == IF dots = {} THEN Len(b) + 1 ELSE CHOOSE i \in dots : TRUE
                   ip == SubSeq(b, 1, p - 1)
                   fp == SubSeq(b, p + 1, Len(b))
                   v == Q(DigitsVal(ip) * Pow10(Len(fp)) + DigitsVal(fp), Pow10(Len(fp)))
               IN IF neg THEN Neg(v) ELSE v

\* !value
CellFalsy(c) == c.t = "null" \/ (c.t = "str" /\ c.s = << >>) \/ (c.t = "num" /\ ~Truthy(c.x))

parseNumber(c) == IF CellFalsy(c) THEN N(0) ELSE StringToNumber(KeepNumeric(CellToString(c)))

\* cells and rows the "Metas" sheet can hold (columns 1, 6, 8, 9 of a row)
KpiCells == { NullCell, Str(<<"$", " ", "1", "2">>), Str(<<"1", ".", "5">>), Str(<<"-">>),
              Num(Q(-7, 2)) }
KpiCumplCells == { Str(<<"-", "3">>), Str(<<"1", ".", "2", ".", "3">>) }
KpiRows == { [gerencia |-> g, ventas |-> v, meta |-> Num(N(10)), cumpl |-> c] :
             g \in { <<"F", "B", "1">>, <<"I", "N">> }, v \in KpiCells, c \in KpiCumplCells }
KpiSheets == UNION { [1..n -> KpiRows] : n \in 0..MaxKpiRows }

\* row[1]?.toString().startsWith("FB")
StartsWithFB(g) == Len(g) >= 2 /\ g[1] = "F" /\ g[2] = "B"
foodData == SelectSeq(kpiData, LAMBDA r : StartsWithFB(r.gerencia))

RECURSIVE SumCells(_, _, _)
SumCells(rows, col, n) == IF n = 0 THEN N(0)
                          ELSE Add(SumCells(rows, col, n - 1), parseNumber(rows[n][col]))
totalMeta == SumCells(foodData, "meta", Len(foodData))
totalVentas == SumCells(foodData, "ventas", Len(foodData))
totalCumplimiento == SumCells(foodData, "cumpl", Len(foodData))

\* fetchData settles: a network error or a body that is not the GViz JSON is
\* caught and logged; otherwise setData(rows)
KpiResponds ==
  /\ page = "kpi" /\ ~crashed
  /\ kpiLoad = "pending"
  /\ \/ /\ \E o \in {"neterr", "badjson"} : kpiLoad' = o
        /\ kpiData' = kpiData
     \/ /\ kpiLoad' = "rows"
        /\ kpiData' \in KpiSheets
  /\ UNCHANGED <<envVars, editVars, catVars, envios, quoteVars, viewerVars, moreVars>>

(* ================= negocio/page.tsx: PDF and mailto ==================== *)
\* descargarYEnviar's check of isViable: alert and return, or start the PDF
\* mutant: the PDF is started whatever the status
EnvioStart_NoCheck(viable) == "generating"
EnvioStart(viable) == IF viable THEN "generating" ELSE "alerted"

NewEnvio(kind, viable, pc) ==
  [kind |-> kind, viable |-> viable, pc |-> pc, saved |-> FALSE, mailto |-> FALSE]

\* "Descargar y enviar"
descargarYEnviar ==
  /\ page = "negocio" /\ ~crashed
  /\ Len(envios) < MaxEnvios
  /\ envios' = Append(envios, NewEnvio("enviar", isViable, EnvioStart(isViable)))
  /\ UNCHANGED <<envVars, editVars, catVars, quoteVars, kpiVars, viewerVars, moreVars>>

\* "Descargar PDF": descargarPdf alone
descargarPdf ==
  /\ page = "negocio" /\ ~crashed
  /\ Len(envios) < MaxEnvios
  /\ envios' = Append(envios, NewEnvio("pdf", isViable, "generating"))
  /\ UNCHANGED <<envVars, editVars, catVars, quoteVars, kpiVars, viewerVars, moreVars>>

\* descargarPdf reaches doc.save(fname) and its promise resolves
PdfSaved ==
  \E i \in 1..Len(envios) :
    /\ envios[i].pc = "generating"
    /\ envios' = [envios EXCEPT ![i].pc = "saved", ![i].saved = TRUE]
    /\ UNCHANGED <<envVars, editVars, catVars, quoteVars, kpiVars, viewerVars, moreVars>>

\* descargarPdf rejects (the jspdf import or the drawing throws): nothing is
\* saved, and descargarYEnviar's then-callback never runs
PdfRejects ==
  \E i \in 1..Len(envios) :
    /\ envios[i].pc = "generating"
    /\ envios' = [envios EXCEPT ![i].pc = "rejected"]
    /\ UNCHANGED <<envVars, editVars, catVars, quoteVars, kpiVars, viewerVars, moreVars>>

\* the then-callback of descargarYEnviar: window.location.href = mailto:...
MailtoOpens ==
  \E i \in 1..Len(envios) :
    /\ envios[i].kind = "enviar" /\ envios[i].pc = "saved"
    /\ envios' = [envios EXCEPT ![i].pc = "mailto", ![i].mailto = TRUE]
    /\ UNCHANGED <<envVars, editVars, catVars, quoteVars, kpiVars, viewerVars, moreVars>>

(* ============================ CSV parsers ============================== *)
\* cell.split / text.split on one separator character
RECURSIVE SplitAt(_, _, _, _)
SplitAt(s, sep, i, cur) ==
  IF i > Len(s) THEN << cur >>
  ELSE IF s[i] = sep THEN << cur >> \o SplitAt(s, sep, i + 1, << >>)
  ELSE SplitAt(s, sep, i + 1, Append(cur, s[i]))
Split(s, sep) == SplitAt(s, sep, 1, << >>)

\* headers.forEach((h, j) => (obj[h] = value(j))): a later column of the
\* same name overwrites an earlier one
ObjectOf(headers, value(_)) ==
  [h \in { headers[j] : j \in 1..Len(headers) } |->
     value(CHOOSE j \in 1..Len(headers) :
             headers[j] = h /\ \A k \in (j + 1)..Len(headers) : headers[k] # h)]

\* r[j] ?? "" and r[j] || ""
CellAt(r, j) == IF j <= Len(r) THEN r[j] ELSE << >>

\* ---- negocio/page.tsx parseCsv
RECURSIVE parseCsvLoop(_, _, _)
parseCsvLoop(s, i, st) ==
  IF i > Len(s) THEN st
  ELSE LET ch == s[i] IN
    IF st.inQuotes
    THEN IF ch = "\""
         THEN IF i + 1 <= Len(s) /\ s[i + 1] = "\""
              THEN parseCsvLoop(s, i + 2, [st EXCEPT !.cell = Append(@, "\"")])
              ELSE parseCsvLoop(s, i + 1, [st EXCEPT !.inQuotes = FALSE])
         ELSE parseCsvLoop(s, i + 1, [st EXCEPT !.cell = Append(@, ch)])
    ELSE IF ch = "\"" THEN parseCsvLoop(s, i + 1, [st EXCEPT !.inQuotes = TRUE])
         ELSE IF ch = ","
         THEN parseCsvLoop(s, i + 1, [st EXCEPT !.row = Append(@, st.cell), !.cell = << >>])
         ELSE IF ch = "\n"
         THEN parseCsvLoop(s, i + 1, [st EXCEPT !.rows = Append(@, Append(st.row, st.cell)),
                                                !.row = << >>, !.cell = << >>])
         ELSE parseCsvLoop(s, i + 1, [st EXCEPT !.cell = Append(@, ch)])

\* the rows left when the text ends: a pending cell or row is pushed
CsvRowsAtEnd(st) ==
  IF st.cell # << >> \/ st.row # << >> THEN Append(st.rows, Append(st.row, st.cell))
  ELSE st.rows

CsvStart == [rows |-> << >>, row |-> << >>, cell |-> << >>, inQuotes |-> FALSE]

parseCsv(text) ==
  LET s == SelectSeq(text, LAMBDA c : c # "\r")
      rows == CsvRowsAtEnd(parseCsvLoop(s, 1, CsvStart))
  IN IF rows = << >> THEN << >>
     ELSE LET headers == [j \in 1..Len(rows[1]) |-> Trim(rows[1][j])]
              body == SelectSeq(Tail(rows), LAMBDA r : \E j \in 1..Len(r) : r[j] # << >>)
          IN [i \in 1..Len(body) |-> ObjectOf(headers, LAMBDA j : CellAt(body[i], j))]

\* ---- ventas/notaventas/page.tsx parseCSV (robust)
RECURSIVE parseCSVLoop(_, _, _)
parseCSVLoop(csv, i, st) ==
  IF i > Len(csv) THEN st
  ELSE LET c == csv[i]
           next == IF i + 1 <= Len(csv) THEN csv[i + 1] ELSE "undefined"
       IN
    IF c = "\"" /\ st.inQuotes /\ next = "\""
    THEN parseCSVLoop(csv, i + 2, [st EXCEPT !.cell = Append(@, "\"")])
    ELSE IF c = "\"" THEN parseCSVLoop(csv, i + 1, [st EXCEPT !.inQuotes = ~@])
    ELSE IF c = "," /\ ~st.inQuotes
    THEN parseCSVLoop(csv, i + 1, [st EXCEPT !.row = Append(@, st.cell), !.cell = << >>])
    ELSE IF (c = "\n" \/ c = "\r") /\ ~st.inQuotes
    THEN LET st2 == IF st.cell # << >> \/ st.row # << >>
                    THEN [st EXCEPT !.rows = Append(@, Append(st.row, st.cell)),
                                    !.row = << >>, !.cell = << >>]
                    ELSE st
         IN parseCSVLoop(csv, IF c = "\r" /\ next = "\n" THEN i + 2 ELSE i + 1, st2)
    ELSE parseCSVLoop(csv, i + 1, [st EXCEPT !.cell = Append(@, c)])

parseCSV(csv) ==
  LET rows == CsvRowsAtEnd(parseCSVLoop(csv, 1, CsvStart))
  IN IF rows = << >> THEN << >>
     ELSE LET header == [j \in 1..Len(rows[1]) |-> Trim(rows[1][j])]
              body == Tail(rows)
          IN [i \in 1..Len(body) |-> ObjectOf(header, LAMBDA j : Trim(CellAt(body[i], j)))]

\* ---- ventas/notaventas/page.tsx parseCSV (first version):
\* text.split(/\r?\n/).map((r) => r.split(","))
DropCr(l) == IF l # << >> /\ l[Len(l)] = "\r" THEN SubSeq(l, 1, Len(l) - 1) ELSE l
parseCSVSimple(text) ==
  LET lines == Split(text, "\n")
      rows == [i \in 1..Len(lines) |-> Split(DropCr(lines[i]), ",")]
      header == rows[1]
      body == Tail(rows)
  IN [i \in 1..Len(body) |-> ObjectOf(header, LAMBDA j : CellAt(body[i], j))]

\* ---- the sheet behind a CSV text
\* what a cell of the sheet can hold
CsvCells == { <<"a">>, <<"b">>, <<"a", ",", "b">>, <<"a", "\n", "b">>,
              <<"a", "\"", "b">>, <<"a", " ", "b">> }
CsvHeader == << <<"c">>, <<"n">> >>
CsvTables ==
  UNION { [1..n -> [1..2 -> CsvCells]] : n \in 0..MaxCsvRows }

\* the CSV export of a cell: quoted, with every quote doubled, when it holds a
\* comma, a quote or a newline
RECURSIVE DoubleQuotes(_)
DoubleQuotes(c) ==
  IF c = << >> THEN << >>
  ELSE (IF Head(c) = "\"" THEN << "\"", "\"" >> ELSE << Head(c) >>) \o DoubleQuotes(Tail(c))
NeedsQuotes(c) == \E i \in 1..Len(c) : c[i] \in {",", "\"", "\n"}
CsvCell(c) == IF NeedsQuotes(c) THEN << "\"" >> \o DoubleQuotes(c) \o << "\"" >> ELSE c
CsvLine(r) == CsvCell(r[1]) \o << "," >> \o CsvCell(r[2])
RECURSIVE CsvLines(_, _)
CsvLines(t, n) == IF n = 0 THEN CsvLine(CsvHeader)
                  ELSE CsvLines(t, n - 1) \o << "\n" >> \o CsvLine(t[n])
CsvExport(t) == CsvLines(t, Len(t))

NoOutput == [by |-> "none", rows |-> << >>]

\* a page fetches the export and hands the text to its parser
ParseWithParseCsv ==
  /\ csvOut = NoOutput
  /\ csvOut' = [by |-> "negocio parseCsv", rows |-> parseCsv(csvText)]
  /\ UNCHANGED <<envVars, editVars, catVars, envios, quoteVars, kpiVars, viewerVars,
                 formVars, held, data, csvTable, csvText>>
ParseWithParseCSV ==
  /\ csvOut = NoOutput
  /\ csvOut' = [by |-> "notaventas parseCSV", rows |-> parseCSV(csvText)]
  /\ UNCHANGED <<envVars, editVars, catVars, envios, quoteVars, kpiVars, viewerVars,
                 formVars, held, data, csvTable, csvText>>
ParseWithParseCSVSimple ==
  /\ csvOut = NoOutput
  /\ csvOut' = [by |-> "notaventas parseCSV (first version)", rows |-> parseCSVSimple(csvText)]
  /\ UNCHANGED <<envVars, editVars, catVars, envios, quoteVars, kpiVars, viewerVars,
                 formVars, held, data, csvTable, csvText>>

(* ================= notaventas/page.tsx: quote items ==================== *)
\* a text is a sequence of characters; "o_acute" stands for the letter o with
\* an acute accent and "EMDASH" for the dash of the datalist options
Dash == "EMDASH"

\* (s || "").normalize("NFD").replace(/\p{Diacritic}+/gu, "").toLowerCase()
NormChar(c) ==
  CASE c = "A" -> "a" [] c = "B" -> "b" [] c = "I" -> "i" [] c = "L" -> "l"
    [] c = "M" -> "m" [] c = "Z" -> "z" [] c = "o_acute" -> "o" [] OTHER -> c
normalize(s) == [i \in 1..Len(s) |-> NormChar(s[i])]

StartsWith(s, p) == Len(p) <= Len(s) /\ SubSeq(s, 1, Len(p)) = p
Includes(s, p) == \E k \in 0..(Len(s) - Len(p)) : SubSeq(s, k + 1, k + Len(p)) = p

\* .replace(/\.(?=\d{3}(\D|$))/g, ""): a dot followed by exactly three digits
ThousandsDot(s, i) ==
  /\ s[i] = "."
  /\ i + 3 <= Len(s)
  /\ IsDigit(s[i + 1]) /\ IsDigit(s[i + 2]) /\ IsDigit(s[i + 3])
  /\ (i + 4 <= Len(s) => ~IsDigit(s[i + 4]))
RECURSIVE DropThousandsDots(_, _)
DropThousandsDots(s, i) ==
  IF i > Len(s) THEN << >>
  ELSE (IF ThousandsDot(s, i) THEN << >> ELSE << s[i] >>) \o DropThousandsDots(s, i + 1)
\* .replace(/,/, "."): the first comma only
FirstCommaToDot(s) ==
  [i \in 1..Len(s) |->
     IF s[i] = "," /\ (\A k \in 1..(i - 1) : s[k] # ",") THEN "." ELSE s[i]]
\* Number(t) for a text of digits, ".", "," and "-"
NumberOfNumeric(t) == IF \E i \in 1..Len(t) : t[i] = "," THEN NaN ELSE StringToNumber(t)
toNumber(v) ==
  LET kept == SelectSeq(v, LAMBDA c : IsDigit(c) \/ c \in {",", ".", "-"})
  IN OrElse(NumberOfNumeric(FirstCommaToDot(DropThousandsDots(kept, 1))), N(0))

mapCatalogItem(r) ==
  [code |-> r.code, description |-> r.name, kilos |-> toNumber(r.kilos),
   qty |-> N(1), unitPrice |-> toNumber(r.price_list), discountPct |-> N(0)]

\* catalogo.find(p): the index of the first row that satisfies p, 0 if none
Find(rows, p(_)) ==
  IF \E j \in 1..Len(rows) : p(rows[j])
  THEN CHOOSE j \in 1..Len(rows) : p(rows[j]) /\ \A k \in 1..(j - 1) : ~p(rows[k])
  ELSE 0

\* raw.includes(dash) ? raw.split(dash)[0].trim() : raw
codeFromToken(raw) ==
  IF \E i \in 1..Len(raw) : raw[i] = Dash THEN Trim(Split(raw, Dash)[1]) ELSE raw

\* mutant: the name is compared before the code
findRow_NameFirst(rows, token) ==
  LET raw == Trim(token)
      f1 == Find(rows, LAMBDA r : normalize(r.name) = normalize(raw))
      f2 == Find(rows, LAMBDA r : normalize(r.code) = normalize(codeFromToken(raw)))
      f3 == Find(rows, LAMBDA r : StartsWith(normalize(r.code), normalize(raw)))
      f4 == Find(rows, LAMBDA r : StartsWith(normalize(r.name), normalize(raw)))
      f5 == Find(rows, LAMBDA r : \/ Includes(normalize(r.code), normalize(raw))
                                  \/ Includes(normalize(r.name), normalize(raw)))
  IN IF f1 # 0 THEN f1 ELSE IF f2 # 0 THEN f2 ELSE IF f3 # 0 THEN f3
     ELSE IF f4 # 0 THEN f4 ELSE f5
\* the chain of catalogo.find(...) || catalogo.find(...) of autofillFromCatalog
findRow(rows, token) ==
  LET raw == Trim(token)
      f1 == Find(rows, LAMBDA r : normalize(r.code) = normalize(codeFromToken(raw)))
      f2 == Find(rows, LAMBDA r : normalize(r.name) = normalize(raw))
      f3 == Find(rows, LAMBDA r : StartsWith(normalize(r.code), normalize(raw)))
      f4 == Find(rows, LAMBDA r : StartsWith(normalize(r.name), normalize(raw)))
      f5 == Find(rows, LAMBDA r : \/ Includes(normalize(r.code), normalize(raw))
                                  \/ Includes(normalize(r.name), normalize(raw)))
  IN IF f1 # 0 THEN f1 ELSE IF f2 # 0 THEN f2 ELSE IF f3 # 0 THEN f3
     ELSE IF f4 # 0 THEN f4 ELSE f5

\* mutant: the filled item takes the quantity of the catalog item (1)
AutofilledItem_QtyReset(it, r) == mapCatalogItem(r)
\* { ...mapCatalogItem(findRow), qty: data.items[i]?.qty ?? 1 } merged into item i
AutofilledItem(it, r) == [mapCatalogItem(r) EXCEPT !.qty = Nullish(it.qty, N(1))]

\* autofillFromCatalog(i, token) on the quote d
autofillFromCatalog(d, i, token) ==
  LET j == findRow(catalogo, token)
  IN IF j = 0 THEN d
     ELSE [d EXCEPT !.items[i] = AutofilledItem(d.items[i], catalogo[j])]

NewItem == [code |-> << >>, description |-> << >>, kilos |-> N(0), qty |-> N(1),
            unitPrice |-> N(0), discountPct |-> N(0)]

addItem ==
  /\ page = "notaventas" /\ ~crashed
  /\ Len(data.items) < MaxItems
  /\ data' = [data EXCEPT !.items = Append(@, NewItem)]
  /\ UNCHANGED <<envVars, editVars, catVars, envios, quoteVars, kpiVars, viewerVars,
                 formVars, held, csvVars>>

removeItem ==
  \E i \in 1..Len(data.items) :
    /\ page = "notaventas" /\ ~crashed
    /\ data' = [data EXCEPT !.items = RemoveAt(@, i)]
    /\ UNCHANGED <<envVars, editVars, catVars, envios, quoteVars, kpiVars, viewerVars,
                   formVars, held, csvVars>>

\* values Number(e.target.value) yields for the numeric inputs of a row
ItemQtyInputs == {N(2)}
ItemDiscountInputs == {N(50)}

SetItemQty ==
  \E i \in 1..Len(data.items), v \in ItemQtyInputs :
    /\ page = "notaventas" /\ ~crashed
    /\ data' = [data EXCEPT !.items[i].qty = v]
    /\ UNCHANGED <<envVars, editVars, catVars, envios, quoteVars, kpiVars, viewerVars,
                   formVars, held, csvVars>>

SetItemDiscountPct ==
  \E i \in 1..Len(data.items), v \in ItemDiscountInputs :
    /\ page = "notaventas" /\ ~crashed
    /\ data' = [data EXCEPT !.items[i].discountPct = v]
    /\ UNCHANGED <<envVars, editVars, catVars, envios, quoteVars, kpiVars, viewerVars,
                   formVars, held, csvVars>>

\* texts autofillFromCatalog can be called with
TokenInputs ==
  { <<"a", "b">>,
    <<"l", "i", "m", " ">>,
    <<"A", "B", " ", "EMDASH", " ", "L", "i", "m", "o_acute", "n", " ", "A", "B", "1">>,
    <<"l", "i", "m", "o", "n", " ", "a", "b", "1">>,
    <<"l", "i">>,
    <<"L", "i", "m", "o_acute">>,
    <<"b", "1">>,
    <<"a">>,
    <<"z", "z">>,
    << >> }

\* what is typed or picked from the datalist in the code input of a row
CodeTokens ==
  { <<"A", "B", " ", "EMDASH", " ", "L", "i", "m", "o_acute", "n", " ", "A", "B", "1">>,
    <<"b", "1">>,
    <<"z", "z">> }

\* the code input of row i: onChange stores the text in the item, and leaving
\* the input (onBlur) calls autofillFromCatalog with the same text
CodeEnteredAt(i, token) ==
  /\ page = "notaventas" /\ ~crashed
  /\ data' = autofillFromCatalog([data EXCEPT !.items[i].code = token], i, token)
  /\ UNCHANGED <<envVars, editVars, catVars, envios, quoteVars, kpiVars, viewerVars,
                 formVars, held, csvVars>>
CodeEntered ==
  \E i \in 1..Len(data.items), token \in CodeTokens : CodeEnteredAt(i, token)

\* the description input of row i: onChange stores the text in the item, and
\* leaving the input (onBlur) calls autofillFromCatalog with the same text
DescriptionEnteredAt(i, token) ==
  /\ page = "notaventas" /\ ~crashed
  /\ data' = autofillFromCatalog([data EXCEPT !.items[i].description = token], i, token)
  /\ UNCHANGED <<envVars, editVars, catVars, envios, quoteVars, kpiVars, viewerVars,
                 formVars, held, csvVars>>
DescriptionEntered ==
  \E i \in 1..Len(data.items), token \in TokenInputs : DescriptionEnteredAt(i, token)

\* totals (useMemo) and the cells of an item row
precioVenta_NoDiscount(it) == OrElse(it.unitPrice, N(0))
precioVenta(it) ==
  Mul(OrElse(it.unitPrice, N(0)), Sub(N(1), Div(OrElse(it.discountPct, N(0)), N(100))))
RowSub(it) == Mul(Mul(OrElse(it.kilos, N(0)), OrElse(it.qty, N(0))), precioVenta(it))
totals ==
  LET subtotal == SumSeq([i \in 1..Len(data.items) |-> RowSub(data.items[i])])
      tax == Mul(subtotal, Div(Nullish(data.taxPct, N(19)), N(100)))
  IN [subtotal |-> subtotal, tax |-> tax, total |-> Add(subtotal, tax)]

\* money(n): (n || 0).toLocaleString("es-CL", { style: "currency", currency:
\* "CLP", maximumFractionDigits: 0 }) shows the amount rounded to whole pesos,
\* halves away from zero; the text is "$" and the digits of this integer
money(x) ==
  LET v == OrElse(x, N(0))
      a == (2 * Abs(v.n) + v.d) \div (2 * v.d)
  IN IF v.n < 0 THEN -a ELSE a

(* ============================ page mounts ============================== *)
NegocioKeys == {"eval.ventas", "eval.comodatos", "eval.meses", "eval.com.base",
                "eval.catalog.url", "eval.pdf.logoUrl", "eval.cliente.nombre",
                "eval.cliente.rut", "eval.cliente.dir", "eval.cliente.ej"}
\* "https://drive.google.com/file/d/1t7Zu1rQK2KoMtA91oGevel_7cYFCrt-7/view?usp=sharing"
DEFAULT_CATALOGO_PDF_URL ==
  <<"h", "t", "t", "p", "s", ":", "/", "/", "d", "r", "i", "v", "e", ".", "g", "o",
    "o", "g", "l", "e", ".", "c", "o", "m", "/", "f", "i", "l", "e", "/", "d", "/",
    "1", "t", "7", "Z", "u", "1", "r", "Q", "K", "2", "K", "o", "M", "t", "A", "9",
    "1", "o", "G", "e", "v", "e", "l", "_", "7", "c", "Y", "F", "C", "r", "t", "-",
    "7", "/", "v", "i", "e", "w", "?", "u", "s", "p", "=", "s", "h", "a", "r", "i",
    "n", "g">>
DEFAULT_LOGO == "https://assets.jumpseller.com/Logo-spartan-white.png"
\* the evaluation date a mount computes from new Date()
Today == "2026-11-04"

\* useState initializer of useLocalStorage: raw ? JSON.parse(raw) : initial
ParseThrows(key) == storage[key].kind = "garbage"
IsStoredNull(key) == storage[key].kind = "null"
ReadStored(key, initial) ==
  IF storage[key].kind = "json" THEN storage[key].v[1] ELSE initial

\* first render of the business-evaluation page: a JSON.parse that throws, or
\* calc's sales.map / comodatos.reduce on null, throws out of the render
NegocioRenderThrows ==
  \/ \E k \in NegocioKeys : ParseThrows(k)
  \/ IsStoredNull("eval.ventas")
  \/ IsStoredNull("eval.comodatos")

\* the "admin" URL parameter: absent, or a text
NoParam == [given |-> FALSE, text |-> << >>]
Param(t) == [given |-> TRUE, text |-> t]
AdminParams == { NoParam, Param(<< >>), Param(<<"2">>), Param(<<"1">>),
                 Param(<<"1", ".", "9">>), Param(<<"7">>), Param(<<"-", "3">>),
                 Param(<<"a", "2">>), Param(<<" ", "2", " ">>) }

\* Number(text): blanks around the text are dropped, "" is 0, a decimal
\* literal is its value, any other text is NaN
NumberOfText(t) ==
  LET u == Trim(t) IN
  IF \E i \in 1..Len(u) : ~(IsDigit(u[i]) \/ u[i] = "." \/ u[i] = "-") THEN NaN
  ELSE StringToNumber(u)

\* Math.trunc of a finite number, as an integer
Trunc(x) == IF x.n < 0 THEN -(Abs(x.n) \div x.d) ELSE x.n \div x.d
Min2(a, b) == IF a < b THEN a ELSE b
Max2(a, b) == IF a > b THEN a ELSE b

\* mutant: the level is truncated but not clamped
AdminLevelOf_NoClamp(p) ==
  IF ~p.given \/ p.text = << >> THEN 0
  ELSE LET lvl == NumberOfText(p.text) IN IF IsFinite(lvl) THEN Trunc(lvl) ELSE 0
\* the mount effect: val ? Number(val) : 0, then
\* Number.isFinite(lvl) ? Math.max(0, Math.min(2, Math.trunc(lvl))) : 0
AdminLevelOf(p) ==
  IF ~p.given \/ p.text = << >> THEN 0
  ELSE LET lvl == NumberOfText(p.text)
       IN IF IsFinite(lvl) THEN Max2(0, Min2(2, Trunc(lvl))) ELSE 0

\* the values of the business-evaluation page that are kept in localStorage
PersistedState ==
  [clienteNombre |-> clienteNombre, rut |-> rut, direccion |-> direccion,
   ejecutivo |-> ejecutivo, catalogUrl |-> catalogUrl, logoUrl |-> logoUrl,
   months |-> months, commissionPct |-> commissionPct,
   sales |-> sales, comodatos |-> comodatos]
NoSnapshot == << >>

MountNegocio ==
  /\ page = "none"
  /\ page' = "negocio"
  /\ IF NegocioRenderThrows
     THEN /\ crashed' = TRUE
          /\ UNCHANGED <<storage, editVars, catVars, formVars>>
     ELSE /\ crashed' = FALSE
          /\ sales' = ReadStored("eval.ventas", << >>)
          /\ comodatos' = ReadStored("eval.comodatos", << >>)
          /\ months' = IF IsStoredNull("eval.meses") THEN Null
                       ELSE ReadStored("eval.meses", N(24))
          /\ commissionPct' = IF IsStoredNull("eval.com.base") THEN Null
                              ELSE ReadStored("eval.com.base", Q(105, 1000))
          /\ catalogUrl' = ReadStored("eval.catalog.url", DEFAULT_CATALOG_URL)
          /\ logoUrl' = ReadStored("eval.pdf.logoUrl", DEFAULT_LOGO)
          /\ clienteNombre' = ReadStored("eval.cliente.nombre", "")
          /\ rut' = ReadStored("eval.cliente.rut", "")
          /\ direccion' = ReadStored("eval.cliente.dir", "")
          /\ ejecutivo' = ReadStored("eval.cliente.ej", "")
          /\ fechaEval' = Today
          /\ \E p \in AdminParams : adminLevel' = AdminLevelOf(p)
          /\ catalog' = {}
          /\ loads' = << StartLoad(catalogUrl') >>
          /\ storage' = [k \in DOMAIN storage |->
                           CASE k = "eval.ventas" -> Json(JsonSales(sales'))
                             [] k = "eval.comodatos" -> Json(JsonComs(comodatos'))
                             [] k = "eval.meses" -> Json(JsonNum(months'))
                             [] k = "eval.com.base" -> Json(JsonNum(commissionPct'))
                             [] k = "eval.catalog.url" -> Json(catalogUrl')
                             [] k = "eval.pdf.logoUrl" -> Json(logoUrl')
                             [] k = "eval.cliente.nombre" -> Json(clienteNombre')
                             [] k = "eval.cliente.rut" -> Json(rut')
                             [] k = "eval.cliente.dir" -> Json(direccion')
                             [] k = "eval.cliente.ej" -> Json(ejecutivo')
                             [] OTHER -> storage[k]]
  /\ held' = NoSnapshot
  /\ UNCHANGED <<envios, quoteVars, kpiVars, viewerVars, data, csvVars>>

\* leaving the business-evaluation page: its React state is dropped,
\* localStorage stays
UnmountNegocio ==
  /\ page = "negocio" /\ ~crashed
  /\ page' = "none"
  /\ held' = << PersistedState >>
  /\ sales' = << >> /\ comodatos' = << >>
  /\ months' = N(24) /\ commissionPct' = Q(105, 1000)
  /\ catalogUrl' = DEFAULT_CATALOG_URL /\ catalog' = {} /\ loads' = << >>
  /\ envios' = << >>
  /\ clienteNombre' = "" /\ rut' = "" /\ direccion' = "" /\ ejecutivo' = ""
  /\ logoUrl' = DEFAULT_LOGO /\ fechaEval' = Today /\ adminLevel' = 0
  /\ UNCHANGED <<crashed, storage, quoteVars, kpiVars, viewerVars, data, csvVars>>

\* catalog viewer page: pdfUrl is a one-element tuple, or << >> for null
MountCatalogos ==
  /\ page = "none"
  /\ page' = "catalogos"
  /\ IF ParseThrows("catalogo.pdf.url")
     THEN /\ crashed' = TRUE
          /\ UNCHANGED <<storage, pdfUrl>>
     ELSE /\ crashed' = FALSE
          /\ pdfUrl' = IF IsStoredNull("catalogo.pdf.url") THEN << >>
                       ELSE << ReadStored("catalogo.pdf.url", DEFAULT_CATALOGO_PDF_URL) >>
          /\ storage' = [storage EXCEPT !["catalogo.pdf.url"] =
                           IF pdfUrl' = << >> THEN JsonNull ELSE Json(pdfUrl'[1])]
  /\ useGoogleViewer' = TRUE
  /\ UNCHANGED <<editVars, catVars, envios, quoteVars, kpiVars, moreVars>>

(* ================= comodatos/catalogos/page.tsx: viewer ================ *)
\* a URL is a sequence of characters
\* "https://example.com/c.pdf": a PDF that is not on Drive
DirectPdfUrl ==
  <<"h", "t", "t", "p", "s", ":", "/", "/", "e", "x", "a", "m", "p", "l", "e", ".",
    "c", "o", "m", "/", "c", ".", "p", "d", "f">>

\* the character class [a-zA-Z0-9_-]
IdChars ==
  {"a", "b", "c", "d", "e", "f", "g", "h", "i", "j", "k", "l", "m", "n", "o", "p", "q", "r", "s", "t", "u", "v", "w", "x", "y", "z",
   "A", "B", "C", "D", "E", "F", "G", "H", "I", "J", "K", "L", "M", "N", "O", "P", "Q", "R", "S", "T", "U", "V", "W", "X", "Y", "Z",
   "0", "1", "2", "3", "4", "5", "6", "7", "8", "9", "_", "-"}

\* url.match(/\/d\/([a-zA-Z0-9_-]+)/) tried at position i: "/d/" and one
\* character of the class at least
MatchesAt(url, i) ==
  /\ i + 3 <= Len(url)
  /\ url[i] = "/" /\ url[i + 1] = "d" /\ url[i + 2] = "/"
  /\ url[i + 3] \in IdChars
\* the greedy group ([a-zA-Z0-9_-]+) from position i
RECURSIVE IdRun(_, _)
IdRun(url, i) ==
  IF i <= Len(url) /\ url[i] \in IdChars THEN << url[i] >> \o IdRun(url, i + 1) ELSE << >>
\* the leftmost match from position i on: << m[1] >>, or << >> for null
RECURSIVE MatchFrom(_, _)
MatchFrom(url, i) ==
  IF i > Len(url) THEN << >>
  ELSE IF MatchesAt(url, i) THEN << IdRun(url, i + 3) >>
  ELSE MatchFrom(url, i + 1)
extractDriveId(url) == MatchFrom(url, 1)

\* `https://drive.google.com/file/d/${id}/preview`
buildDrivePreviewUrl(id) ==
  <<"h", "t", "t", "p", "s", ":", "/", "/", "d", "r", "i", "v", "e", ".", "g", "o",
    "o", "g", "l", "e", ".", "c", "o", "m", "/", "f", "i", "l", "e", "/", "d", "/">>
  \o id \o <<"/", "p", "r", "e", "v", "i", "e", "w">>

\* encodeURIComponent: letters, digits and - _ . ! ~ * ' ( ) are kept, any
\* other character is written as a percent sign and the two hex digits of its
\* code
PercentCode(c) ==
  IF c \in IdChars \cup {".", "!", "~", "*", "'", "(", ")"} THEN << c >>
  ELSE CASE c = ":" -> <<"%", "3", "A">> [] c = "/" -> <<"%", "2", "F">>
         [] c = "?" -> <<"%", "3", "F">> [] c = "=" -> <<"%", "3", "D">>
         [] c = "&" -> <<"%", "2", "6">> [] c = " " -> <<"%", "2", "0">>
RECURSIVE encodeURIComponent(_)
encodeURIComponent(t) ==
  IF t = << >> THEN << >> ELSE PercentCode(Head(t)) \o encodeURIComponent(Tail(t))

\* "https://docs.google.com/gview?embedded=1&url="
GviewPrefix ==
  <<"h", "t", "t", "p", "s", ":", "/", "/", "d", "o", "c", "s", ".", "g", "o", "o",
    "g", "l", "e", ".", "c", "o", "m", "/", "g", "v", "i", "e", "w", "?", "e", "m",
    "b", "e", "d", "d", "e", "d", "=", "1", "&", "u", "r", "l", "=">>

\* pdfUrl || ""
PdfText == IF pdfUrl = << >> THEN << >> ELSE pdfUrl[1]
driveId == extractDriveId(PdfText)
\* !!driveId: null and the empty text are falsy
isDrive == driveId # << >> /\ driveId[1] # << >>

\* mutant: the checkbox is looked at before the Drive id
embedSrc_ToggleFirst ==
  IF PdfText = << >> THEN << >>
  ELSE IF useGoogleViewer THEN GviewPrefix \o encodeURIComponent(PdfText)
  ELSE IF isDrive /\ driveId # << >> THEN buildDrivePreviewUrl(driveId[1])
  ELSE PdfText
\* embedSrc (useMemo)
embedSrc ==
  IF PdfText = << >> THEN << >>
  ELSE IF isDrive /\ driveId # << >> THEN buildDrivePreviewUrl(driveId[1])
  ELSE IF useGoogleViewer THEN GviewPrefix \o encodeURIComponent(PdfText)
  ELSE PdfText

\* the viewer: !pdfUrl ? <div>...</div> : <iframe src={embedSrc} />
Viewer ==
  IF PdfText = << >> THEN [tag |-> "div", src |-> << >>]
  ELSE [tag |-> "iframe", src |-> embedSrc]

\* characters typed into the URL input, and URLs pasted into it
UrlChars == {"/", "d", "-", "."}
PastedUrls == {DEFAULT_CATALOGO_PDF_URL, DirectPdfUrl, << >>}
\* e.target.value after one input event on the text t
EditedTexts(t) ==
  { Append(t, c) : c \in IF Len(t) < MaxUrlLen THEN UrlChars ELSE {} }
    \cup (IF t = << >> THEN {} ELSE { SubSeq(t, 1, Len(t) - 1) })
    \cup PastedUrls

\* onChange of the URL input: setPdfUrl(e.target.value), and the effect of
\* useLocalStorage stores the new text
SetPdfUrl ==
  \E v \in EditedTexts(PdfText) :
    /\ page = "catalogos" /\ ~crashed
    /\ pdfUrl' = << v >>
    /\ storage' = Stored("catalogo.pdf.url", v)
    /\ UNCHANGED <<page, crashed, useGoogleViewer, editVars, catVars, envios,
                   quoteVars, kpiVars, moreVars>>

\* onChange of the checkbox (disabled={isDrive}): setUseGoogleViewer(checked)
SetUseGoogleViewer ==
  /\ page = "catalogos" /\ ~crashed
  /\ ~isDrive
  /\ useGoogleViewer' = ~useGoogleViewer
  /\ UNCHANGED <<envVars, pdfUrl, editVars, catVars, envios, quoteVars, kpiVars,
                 moreVars>>

\* quote page: the mount effect starts the initial load
MountNotaventas ==
  /\ page = "none"
  /\ page' = "notaventas"
  /\ loadingData' = TRUE
  /\ qloads' = << NewQLoad("mount") >>
  /\ UNCHANGED <<crashed, storage, editVars, catVars, envios, clientes, catalogo,
                 loadError, lastUpdated, kpiVars, viewerVars, moreVars>>

\* KPI page: the mount effect starts fetchData
MountKpi ==
  /\ page = "none"
  /\ page' = "kpi"
  /\ kpiLoad' = "pending"
  /\ UNCHANGED <<crashed, storage, editVars, catVars, envios, quoteVars, kpiData, viewerVars, moreVars>>

(* ========================== specifications ============================= *)
EmptyStorage ==
  [k \in NegocioKeys \cup {"catalogo.pdf.url"} |-> Absent]

\* state of the pages that are not open
NegocioDefaults ==
  /\ sales = << >> /\ comodatos = << >>
  /\ months = N(24) /\ commissionPct = Q(105, 1000)
  /\ catalogUrl = DEFAULT_CATALOG_URL
  /\ envios = << >>
  /\ clienteNombre = "" /\ rut = "" /\ direccion = "" /\ ejecutivo = ""
  /\ logoUrl = DEFAULT_LOGO /\ fechaEval = Today /\ adminLevel = 0
  /\ held = NoSnapshot
OtherPagesIdle ==
  /\ clientes = << >> /\ catalogo = << >> /\ loadError = << >>
  /\ loadingData = FALSE /\ lastUpdated = << >> /\ qloads = << >>
  /\ kpiData = << >> /\ kpiLoad = "none"
  /\ pdfUrl = << DEFAULT_CATALOGO_PDF_URL >> /\ useGoogleViewer = TRUE
  /\ data = DEFAULT_QUOTE
  /\ csvTable = << >> /\ csvText = << >> /\ csvOut = NoOutput

\* state of every page before any of them is mounted
Unmounted ==
  /\ page = "none" /\ crashed = FALSE
  /\ NegocioDefaults
  /\ catalog = {} /\ loads = << >>
  /\ OtherPagesIdle

\* what the browser's localStorage can hold when a page is opened: nothing,
\* or one entry left by an earlier visit or damaged since
StoredEntries ==
  { <<"eval.ventas", Garbage>>, <<"eval.ventas", JsonNull>>,
    <<"eval.ventas", Json(<< NewSale >>)>>,
    <<"eval.catalog.url", Json(UrlB)>>,
    <<"catalogo.pdf.url", Garbage>>, <<"catalogo.pdf.url", JsonNull>>,
    <<"catalogo.pdf.url", Json(DirectPdfUrl)>> }

InitPages ==
  /\ Unmounted
  /\ \/ storage = EmptyStorage
     \/ \E e \in StoredEntries : storage = [EmptyStorage EXCEPT ![e[1]] = e[2]]

NextPages ==
  \/ MountNegocio \/ MountCatalogos \/ MountNotaventas \/ MountKpi
  \/ SetCatalogUrl \/ CsvResponds \/ GvizResponds
  \/ reloadData \/ ApiResponds \/ DirectResponds
  \/ KpiResponds

SpecPages == InitPages /\ [][NextPages]_vars

(* ------------------- specification: line editing ----------------------- *)
\* localStorage after a first visit of the business-evaluation page
FirstVisitStorage ==
  [EmptyStorage EXCEPT !["eval.ventas"] = Json(<< >>), !["eval.comodatos"] = Json(<< >>),
                       !["eval.meses"] = Json(N(24)), !["eval.com.base"] = Json(Q(105, 1000)),
                       !["eval.catalog.url"] = Json(DEFAULT_CATALOG_URL),
                       !["eval.pdf.logoUrl"] = Json(DEFAULT_LOGO),
                       !["eval.cliente.nombre"] = Json(""), !["eval.cliente.rut"] = Json(""),
                       !["eval.cliente.dir"] = Json(""), !["eval.cliente.ej"] = Json("")]

\* the business-evaluation page just mounted on a first visit, its catalog
\* load still in flight (catalog empty) or already settled with the rows
NegocioMounted(csv) ==
  /\ page = "negocio" /\ crashed = FALSE
  /\ storage = FirstVisitStorage
  /\ NegocioDefaults
  /\ OtherPagesIdle
  /\ loads = << [StartLoad(DEFAULT_CATALOG_URL) EXCEPT
                   !.csv = csv, !.st = IF csv = "rows" THEN "set" ELSE "running"] >>
  /\ catalog = IF csv = "rows" THEN LoadedCatalog(DEFAULT_CATALOG_URL) ELSE {}

InitCalc == \E csv \in {"pending", "rows"} : NegocioMounted(csv)

NextCalc ==
  \/ addSale \/ rmSale \/ SetSaleQty \/ SetSalePriceKg \/ fillFromCode
  \/ addCom \/ rmCom \/ SetComPrice \/ SetComQty
  \/ SetMonths \/ SetCommissionPct

SpecCalc == InitCalc /\ [][NextCalc]_vars

(* ------------------- specification: persistence ------------------------ *)
InitPersist == Unmounted /\ storage = EmptyStorage

NextPersist ==
  \/ MountNegocio \/ UnmountNegocio
  \/ SetClienteNombre \/ SetRut
  \/ SetLogoUrl \/ SetCatalogUrl
  \/ SetMonths \/ SetCommissionPct
  \/ addSale \/ SetSalePriceKg \/ addCom
  \/ limpiarTodo

SpecPersist == InitPersist /\ [][NextPersist]_vars

(* ------------------- specification: CSV parsing ------------------------ *)
InitCsv ==
  /\ page = "none" /\ crashed = FALSE /\ storage = EmptyStorage
  /\ NegocioDefaults /\ catalog = {} /\ loads = << >>
  /\ clientes = << >> /\ catalogo = << >> /\ loadError = << >>
  /\ loadingData = FALSE /\ lastUpdated = << >> /\ qloads = << >>
  /\ kpiData = << >> /\ kpiLoad = "none"
  /\ pdfUrl = << DEFAULT_CATALOGO_PDF_URL >> /\ useGoogleViewer = TRUE
  /\ data = DEFAULT_QUOTE
  /\ csvTable \in CsvTables
  /\ csvText = CsvExport(csvTable)
  /\ csvOut = NoOutput

NextCsv == ParseWithParseCsv \/ ParseWithParseCSV \/ ParseWithParseCSVSimple

SpecCsv == InitCsv /\ [][NextCsv]_vars

(* ------------------- specification: the evaluation form ---------------- *)
\* the business-evaluation page mounted on a first visit, opened without the
\* admin parameter or with ?admin=2, its catalog loaded
InitForm ==
  /\ page = "negocio" /\ crashed = FALSE
  /\ storage = FirstVisitStorage
  /\ sales = << >> /\ comodatos = << >>
  /\ months = N(24) /\ commissionPct = Q(105, 1000)
  /\ catalogUrl = DEFAULT_CATALOG_URL
  /\ envios = << >>
  /\ clienteNombre = "" /\ rut = "" /\ direccion = "" /\ ejecutivo = ""
  /\ logoUrl = DEFAULT_LOGO /\ fechaEval = Today
  /\ adminLevel \in {AdminLevelOf(NoParam), AdminLevelOf(Param(<<"2">>))}
  /\ held = NoSnapshot
  /\ OtherPagesIdle
  /\ loads = << [StartLoad(DEFAULT_CATALOG_URL) EXCEPT !.csv = "rows", !.st = "set"] >>
  /\ catalog = LoadedCatalog(DEFAULT_CATALOG_URL)

NextForm ==
  \/ SetClienteNombre \/ SetRut \/ SetDireccion \/ SetEjecutivo
  \/ SetFechaEval \/ SetLogoUrl \/ SetMonths \/ SetCommissionPct
  \/ addSale \/ addCom \/ limpiarTodo

SpecForm == InitForm /\ [][NextForm]_vars

(* ------------------- specification: autofill of lines ------------------ *)
InitFill == \E csv \in {"pending", "rows"} : NegocioMounted(csv)

NextFill ==
  \/ addSale \/ addCom \/ SetSalePriceKg \/ SetComPrice
  \/ fillFromCode \/ fillComFromCode \/ SetMonths

SpecFill == InitFill /\ [][NextFill]_vars

(* ------------------- specification: quote items ------------------------ *)
\* the quote page after its initial load delivered both lists; the quote is
\* the default one or an `initial` quote with a client and without taxPct
InitQuote ==
  /\ page = "notaventas" /\ crashed = FALSE /\ storage = EmptyStorage
  /\ NegocioDefaults /\ catalog = {} /\ loads = << >>
  /\ clientes = ClientRows /\ catalogo = CatalogRows
  /\ loadError = << >> /\ loadingData = FALSE /\ lastUpdated = << 1 >>
  /\ qloads = << [kind |-> "mount", cli |-> [NewChain EXCEPT !.api = "ok"],
                  cat |-> [NewChain EXCEPT !.api = "ok"], st |-> "set"] >>
  /\ kpiData = << >> /\ kpiLoad = "none"
  /\ pdfUrl = << DEFAULT_CATALOGO_PDF_URL >> /\ useGoogleViewer = TRUE
  /\ data \in {DEFAULT_QUOTE,
               [DEFAULT_QUOTE EXCEPT !.taxPct = Undefined, !.client.name = "ACME Ltda."]}
  /\ csvTable = << >> /\ csvText = << >> /\ csvOut = NoOutput

NextQuote ==
  \/ addItem \/ removeItem \/ SetItemQty \/ SetItemDiscountPct
  \/ CodeEntered

SpecQuote == InitQuote /\ [][NextQuote]_vars

(* ------------------- specification: catalog autofill ------------------- *)
\* the catalog sheets that can be served: any of the rows, in any order
CatalogSheets ==
  { [j \in 1..Len(o) |-> CatalogRows[o[j]]] :
      o \in { f \in UNION { [1..n -> 1..Len(CatalogRows)] : n \in 0..Len(CatalogRows) } :
                \A a, b \in DOMAIN f : a # b => f[a] # f[b] } }

\* the quote page after its initial load, with one item added
InitAutofill ==
  /\ page = "notaventas" /\ crashed = FALSE /\ storage = EmptyStorage
  /\ NegocioDefaults /\ catalog = {} /\ loads = << >>
  /\ clientes = ClientRows /\ catalogo \in CatalogSheets
  /\ loadError = << >> /\ loadingData = FALSE /\ lastUpdated = << 1 >>
  /\ qloads = << [kind |-> "mount", cli |-> [NewChain EXCEPT !.api = "ok"],
                  cat |-> [NewChain EXCEPT !.api = "ok"], st |-> "set"] >>
  /\ kpiData = << >> /\ kpiLoad = "none"
  /\ pdfUrl = << DEFAULT_CATALOGO_PDF_URL >> /\ useGoogleViewer = TRUE
  /\ data = [DEFAULT_QUOTE EXCEPT !.items = << NewItem >>]
  /\ csvTable = << >> /\ csvText = << >> /\ csvOut = NoOutput

NextAutofill == DescriptionEntered

SpecAutofill == InitAutofill /\ [][NextAutofill]_vars

(* ------------------- specification: items of one quote ----------------- *)
\* the quote page after its initial load, a client entered and two items added
InitItems ==
  /\ page = "notaventas" /\ crashed = FALSE /\ storage = EmptyStorage
  /\ NegocioDefaults /\ catalog = {} /\ loads = << >>
  /\ clientes = ClientRows /\ catalogo = CatalogRows
  /\ loadError = << >> /\ loadingData = FALSE /\ lastUpdated = << 1 >>
  /\ qloads = << [kind |-> "mount", cli |-> [NewChain EXCEPT !.api = "ok"],
                  cat |-> [NewChain EXCEPT !.api = "ok"], st |-> "set"] >>
  /\ kpiData = << >> /\ kpiLoad = "none"
  /\ pdfUrl = << DEFAULT_CATALOGO_PDF_URL >> /\ useGoogleViewer = TRUE
  /\ data = [DEFAULT_QUOTE EXCEPT !.items = << NewItem, NewItem >>,
                                  !.client.name = "ACME Ltda."]
  /\ csvTable = << >> /\ csvText = << >> /\ csvOut = NoOutput

NextItems == SetItemQty \/ SetItemDiscountPct \/ CodeEntered

SpecItems == InitItems /\ [][NextItems]_vars

(* ------------------- specification: PDF and mailto --------------------- *)
InitEnvio == NegocioMounted("rows")

NextEnvio ==
  \/ addSale \/ rmSale \/ fillFromCode
  \/ descargarYEnviar \/ descargarPdf \/ PdfSaved \/ PdfRejects \/ MailtoOpens

SpecEnvio == InitEnvio /\ [][NextEnvio]_vars

(* ------------------------ claims on calc ------------------------------- *)
\* C1: the final commission of every sale line equals
\* commissionPct x (1 - rel) x venta of the line, where rel is
\* comodatoMensual / ventaTotal when ventaTotal > 0 and 0 otherwise.
C1_ComisionFormula ==
  LET c == calc
      relClaim == IF Gt(c.ventaTotal, N(0)) THEN Div(c.comodatoMensual, c.ventaTotal)
                  ELSE N(0)
  IN \A i \in 1..Len(sales) :
       c.lines[i].comision = Mul(commissionPct, Mul(Sub(N(1), relClaim), c.lines[i].venta))
\* two lines, positive revenue, a non-zero ratio and a non-zero commission
C1_Witness ==
  LET c == calc IN
  /\ Len(sales) = 2
  /\ Gt(c.ventaTotal, N(0))
  /\ c.rel \notin {N(0), N(1)}
  /\ \E i \in 1..Len(sales) : c.lines[i].comision # N(0)

\* C2: comodatoMensual equals the contract total (sum over equipment lines of
\* priceContract x qty) divided by months, for every reachable value of months.
C2_ContractTotal ==
  SumSeq([i \in 1..Len(comodatos) |-> Mul(comodatos[i].priceContract, comodatos[i].qty)])
C2_ComodatoMensual == calc.comodatoMensual = Div(C2_ContractTotal, months)
\* a non-zero contract total pro-rated over the 24 months of a new evaluation
C2_Witness ==
  /\ months = N(24)
  /\ C2_ContractTotal # N(0)
  /\ calc.comodatoMensual # C2_ContractTotal

\* C3 (as stated): cdtoAsignado of each line equals
\* (kilosMes / total kilosMes) x comodatoMensual, kilosMes = qty x kilos.
C3_KilosMes(i) == Mul(sales[i].qty, sales[i].kilos)
C3_TotalKilos == SumSeq([i \in 1..Len(sales) |-> C3_KilosMes(i)])
C3_Original ==
  LET c == calc
      tk == C3_TotalKilos
  IN \A i \in 1..Len(sales) :
       c.lines[i].cdtoAsignado = Mul(Div(C3_KilosMes(i), tk), c.comodatoMensual)
\* C3 (amended): cdtoAsignado of each line equals
\* (kilosMes / total kilosMes) x comodatoMensual when the total kilosMes is
\* greater than 0, and 0 otherwise; kilosMes = qty x kilos.
C3_CdtoAsignado ==
  LET c == calc
      tk == C3_TotalKilos
  IN \A i \in 1..Len(sales) :
       c.lines[i].cdtoAsignado =
         IF Gt(tk, N(0)) THEN Mul(Div(C3_KilosMes(i), tk), c.comodatoMensual) ELSE N(0)
\* two lines of different weight sharing a non-zero monthly loan
C3_Witness ==
  LET c == calc IN
  /\ Len(sales) = 2
  /\ Gt(C3_TotalKilos, N(0))
  /\ c.comodatoMensual # N(0)
  /\ c.lines[1].cdtoAsignado # c.lines[2].cdtoAsignado
  /\ c.lines[1].cdtoAsignado # N(0)
  /\ c.lines[2].cdtoAsignado # N(0)

(* ------------------------ claims on the loads -------------------------- *)
\* C4: numeric fields default to zero, so that no computed total is ever NaN:
\* every KPI sum is a finite number, equal to the sum in which a cell that is
\* missing, empty or not a finite number counts as 0.
RECURSIVE C4_SumDefaultZero(_, _, _)
C4_SumDefaultZero(rows, col, n) ==
  IF n = 0 THEN N(0)
  ELSE Add(C4_SumDefaultZero(rows, col, n - 1), num(parseNumber(rows[n][col])))
C4_TotalsDefaultZero ==
  /\ IsFinite(totalVentas) /\ IsFinite(totalMeta) /\ IsFinite(totalCumplimiento)
  /\ totalVentas = C4_SumDefaultZero(foodData, "ventas", Len(foodData))
  /\ totalCumplimiento = C4_SumDefaultZero(foodData, "cumpl", Len(foodData))

\* C5: once every catalog load has settled and the load of the latest catalog
\* URL delivered rows, the catalog held is the one of the latest catalog URL,
\* whatever order the loads completed in.
C5_LatestUrlWins ==
  ( /\ page = "negocio" /\ ~crashed
    /\ \A i \in 1..Len(loads) : loads[i].st # "running"
    /\ loads[Len(loads)].st = "set" )
  => catalog = LoadedCatalog(catalogUrl)

\* C6: on the quote page, whether a load replaces the client list does not
\* depend on the catalog fetch of the same load, nor the catalog on the client
\* fetch: two finished loads of the same kind whose client fetch (catalog
\* fetch) ended alike have both replaced the lists, or neither has.
C6_BothDone(l) == ChainDone(l.cli) /\ ChainDone(l.cat)
\* setClientes and setCatalogo are called together, when the load ends "set"
C6_ReplacedClientes(l) == l.st = "set"
C6_ReplacedCatalogo(l) == l.st = "set"
C6_FetchesIndependent ==
  \A i, j \in 1..Len(qloads) :
    ( /\ qloads[i].kind = qloads[j].kind
      /\ C6_BothDone(qloads[i]) /\ C6_BothDone(qloads[j]) )
    => /\ (ChainOk(qloads[i].cli) = ChainOk(qloads[j].cli))
            => (C6_ReplacedClientes(qloads[i]) = C6_ReplacedClientes(qloads[j]))
       /\ (ChainOk(qloads[i].cat) = ChainOk(qloads[j].cat))
            => (C6_ReplacedCatalogo(qloads[i]) = C6_ReplacedCatalogo(qloads[j]))

\* C7: after a sheet load has failed on every source tried, the page shows
\* the affected list as empty or shows an inline error string (the
\* business-evaluation page has no error string: its catalog must be empty).
C7_NegocioLoadFailed(l) ==
  /\ l.st = "noop"
  /\ l.csv \in {"neterr", "notok", "empty"}
  /\ l.gviz \in {"notok", "badformat"}
C7_FailureShown ==
  /\ ( /\ page = "negocio" /\ ~crashed /\ loads # << >>
       /\ \A i \in 1..Len(loads) : loads[i].st # "running"
       /\ C7_NegocioLoadFailed(loads[Len(loads)]) )
     => catalog = {}
  /\ ( /\ page = "notaventas" /\ qloads # << >>
       /\ qloads[Len(qloads)].st # "running" )
     => LET l == qloads[Len(qloads)] IN
        /\ (l.st = "error") => (loadError # << >>)
        /\ (l.st = "set" /\ ChainFailed(l.cli)) => (clientes = << >>)
        /\ (l.st = "set" /\ ChainFailed(l.cat)) => (catalogo = << >>)
  /\ (page = "kpi" /\ kpiLoad \in {"neterr", "badjson"}) => (kpiData = << >>)

\* C8: there is no fatal-error path: whatever a page finds in localStorage
\* under its keys, it goes on rendering.
C8_NoFatalPath == ~crashed

C10_MailtoOnlyViableAfterSave ==
  \A i \in 1..Len(envios) :
    (envios[i].kind = "enviar") =>
      /\ envios[i].mailto => (envios[i].viable /\ envios[i].saved)
      /\ (~envios[i].viable) => (~envios[i].saved /\ ~envios[i].mailto)
\* one invocation refused on a non-viable evaluation, another one that opened
\* the mailto link although the evaluation has stopped being viable since
C10_Witness ==
  /\ \E i \in 1..Len(envios) :
       envios[i].kind = "enviar" /\ ~envios[i].viable /\ envios[i].pc = "alerted"
  /\ \E i \in 1..Len(envios) :
       envios[i].kind = "enviar" /\ envios[i].viable /\ envios[i].mailto
  /\ ~isViable

C12_Expected ==
  [i \in 1..Len(csvTable) |-> ObjectOf(CsvHeader, LAMBDA j : csvTable[i][j])]
C12_QuotedFieldsKept ==
  (csvOut # NoOutput) => (csvOut.rows = C12_Expected)
\* the same statement for the two quote-aware parsers only
C12_QuoteAwareParsersKeep ==
  (csvOut.by \in {"negocio parseCsv", "notaventas parseCSV"}) => (csvOut.rows = C12_Expected)

(* ------------------------ claims on the status ------------------------- *)
\* C13: the evaluation status is 'Viable' exactly when ventaTotal > 0 and the
\* sum of the final margins mgn3 of all sale lines divided by ventaTotal is at
\* least 0.005; with no sale lines or zero total revenue it is 'No viable'.
C13_Mgn3Total == SumSeq([i \in 1..Len(calc.lines) |-> calc.lines[i].mgn3])
C13_StatusViable ==
  /\ isViable <=> (/\ Gt(calc.ventaTotal, N(0))
                   /\ Ge(Div(C13_Mgn3Total, calc.ventaTotal), Q(5, 1000)))
  /\ (Len(sales) = 0 \/ calc.ventaTotal = N(0)) => ~isViable
\* both sides of the threshold occur with positive revenue
C13_Witness ==
  /\ Len(sales) = 2 /\ Gt(calc.ventaTotal, N(0)) /\ isViable
  /\ Gt(calc.comodatoMensual, N(0))
C13_WitnessNotViable ==
  /\ Len(sales) >= 1 /\ Gt(calc.ventaTotal, N(0)) /\ ~isViable

(* ------------------------ claims on the admin level -------------------- *)
\* C14: adminLevel is 0, 1 or 2 whatever the `admin` query parameter is (an
\* absent or non-numeric parameter gives 0, a number is truncated and clamped),
\* and the configuration panel with the catalog URL and the logo URL is
\* offered only at level 2: these two values are edited at no other level.
C14_NonNumeric(p) == ~p.given \/ NumberOfText(p.text).k # "num"
C14_AdminLevelGatesPanel ==
  /\ [](adminLevel \in {0, 1, 2})
  /\ [](\A p \in AdminParams :
          /\ AdminLevelOf(p) \in {0, 1, 2}
          /\ C14_NonNumeric(p) => AdminLevelOf(p) = 0)
  /\ [][ (page = "negocio" /\ page' = "negocio"
          /\ (catalogUrl' # catalogUrl \/ logoUrl' # logoUrl))
         => adminLevel = 2 ]_vars
\* the panel has been used at level 2, and the page has been opened at level 1
C14_Witness ==
  /\ page = "negocio" /\ ~crashed /\ adminLevel = 2
  /\ logoUrl # DEFAULT_LOGO /\ catalogUrl = UrlB /\ held = NoSnapshot
C14_WitnessLevel1 ==
  /\ page = "negocio" /\ ~crashed /\ adminLevel = 1 /\ held = NoSnapshot

(* ------------------------ claims on the months input ------------------- *)
\* C15: whatever is typed into the months input, in any order and across
\* reopening the page, months is a finite number not below 1; the monthly
\* comodato is therefore never computed with months <= 0.
C15_MonthsAtLeastOne ==
  /\ IsFinite(months) /\ Ge(months, N(1))
  /\ calc.comodatoMensual = Div(calc.totalComodato, months)
\* a value below 1 was typed (the page opens with 24) and a comodato line is
\* being pro-rated
C15_Witness ==
  /\ page = "negocio" /\ ~crashed /\ months = N(1) /\ Len(comodatos) = 1

C17_InCatalog(code) == \E c \in catalog : ToUpperCase(c.code) = ToUpperCase(Trim(code))
C17_FillOnlyOnMatch ==
  [][ /\ \A i \in 1..Len(sales), code \in CodeInputs :
           fillFromCodeAt(i, code) =>
             /\ ~C17_InCatalog(code) => sales' = sales
             /\ Len(sales') = Len(sales)
             /\ \A j \in 1..Len(sales) : j # i => sales'[j] = sales[j]
             /\ sales[i].priceKg # N(0) => sales'[i].priceKg = sales[i].priceKg
             /\ comodatos' = comodatos
      /\ \A i \in 1..Len(comodatos), code \in CodeInputs :
           fillComFromCodeAt(i, code) =>
             /\ ~C17_InCatalog(code) => comodatos' = comodatos
             /\ Len(comodatos') = Len(comodatos)
             /\ \A j \in 1..Len(comodatos) : j # i => comodatos'[j] = comodatos[j]
             /\ comodatos[i].priceContract # N(0)
                  => comodatos'[i].priceContract = comodatos[i].priceContract
             /\ sales' = sales ]_vars
\* a sale line filled from the catalog that kept the price typed before, next
\* to an untouched line, and a comodato line that took the catalog's price
C17_Witness ==
  /\ Len(sales) = 2 /\ Len(comodatos) = 1
  /\ sales[1].code # << >> /\ sales[1].priceKg = N(3)
  /\ sales[1].priceListaKg # Undefined /\ sales[1].priceListaKg # N(3)
  /\ sales[2] = NewSale
  /\ comodatos[1].code # << >> /\ comodatos[1].priceContract # N(0)
  /\ comodatos[1].priceContract # N(6)

(* ------------------------ claims on the quote totals ------------------- *)
\* the amount of one row by the stated formula
C18_RowAmount(it) ==
  Mul(Mul(Mul(it.kilos, it.qty), it.unitPrice), Sub(N(1), Div(it.discountPct, N(100))))
C18_Amounts == [i \in 1..Len(data.items) |-> C18_RowAmount(data.items[i])]
C18_TaxPct == IF data.taxPct = Undefined THEN N(19) ELSE data.taxPct
RECURSIVE C18_SumShown(_)
C18_SumShown(n) == IF n = 0 THEN 0 ELSE C18_SumShown(n - 1) + money(RowSub(data.items[n]))

C19_BeforeDash(raw) ==
  IF \E p \in 1..Len(raw) : raw[p] = Dash
  THEN LET p == CHOOSE q \in 1..Len(raw) : raw[q] = Dash /\ \A k \in 1..(q - 1) : raw[k] # Dash
       IN Trim(SubSeq(raw, 1, p - 1))
  ELSE raw
\* row r matches the trimmed token raw in tier k
C19_Matches(k, r, raw) ==
  LET code == normalize(r.code)
      name == normalize(r.name)
      tok == normalize(raw)
  IN CASE k = 1 -> code = normalize(C19_BeforeDash(raw))
       [] k = 2 -> name = tok
       [] k = 3 -> StartsWith(code, tok)
       [] k = 4 -> StartsWith(name, tok)
       [] k = 5 -> Includes(code, tok) \/ Includes(name, tok)
C19_Min(S) == CHOOSE x \in S : \A y \in S : x <= y
\* the highest tier with a match (0 if no row matches at all)
C19_Tier(rows, token) ==
  LET K == { k \in 1..5 : \E j \in 1..Len(rows) : C19_Matches(k, rows[j], Trim(token)) }
  IN IF K = {} THEN 0 ELSE C19_Min(K)
\* the first row, in catalog order, of the highest tier with a match
C19_Pick(rows, token) ==
  LET k == C19_Tier(rows, token)
  IN IF k = 0 THEN 0
     ELSE C19_Min({ j \in 1..Len(rows) : C19_Matches(k, rows[j], Trim(token)) })

\* C19: autofillFromCatalog picks the catalog row by strict priority (code
\* equal to the token part before the dash, else name equal to the token, else
\* code starting with it, else name starting with it, else code or name
\* containing it), the first row in catalog order within the tier, and a lower
\* tier only when no higher tier has a match; with no match in any tier the
\* item is left as it is.
C19_StrictPriority ==
  /\ [](\A token \in TokenInputs : findRow(catalogo, token) = C19_Pick(catalogo, token))
  /\ [][ \A i \in 1..Len(data.items), token \in TokenInputs :
           DescriptionEnteredAt(i, token) =>
             LET j == C19_Pick(catalogo, token)
             IN IF j = 0
                THEN data'.items[i] = [data.items[i] EXCEPT !.description = token]
                ELSE /\ data'.items[i].code = catalogo[j].code
                     /\ data'.items[i].description = catalogo[j].name ]_vars
\* with the three rows served in sheet order every tier decides some token,
\* and the item has been filled from the third row although the first row
\* matches the same token in a lower tier
C19_Witness ==
  /\ catalogo = CatalogRows
  /\ \A k \in 1..5 : \E token \in TokenInputs : C19_Tier(catalogo, token) = k
  /\ \E token \in TokenInputs :
       /\ findRow(catalogo, token) = 3
       /\ C19_Tier(catalogo, token) = 1
       /\ C19_Matches(2, catalogo[1], Trim(token))
  /\ data.items[1].code = catalogo[3].code
  /\ data.items[1].description = catalogo[3].name

(* ------------------------ claims on the autofilled item ---------------- *)
\* the number a cell of the catalog sheet stands for
C20_Number(cell) ==
  CASE cell = <<"5">> -> N(5)
    [] cell = <<"1", ",", "5">> -> Q(3, 2)
    [] cell = <<"1", ".", "9", "9", "0">> -> N(1990)
    [] cell = <<"3">> -> N(3)
    [] cell = <<"$", " ", "1", "0">> -> N(10)
    [] cell = << >> -> N(0)
\* C20: when autofillFromCatalog matches a catalog row for item i, item i
\* takes its code, description, kilos and unit price from that row, its
\* discount becomes 0 and its quantity keeps the value it had; every other
\* item and every client and issuer field is unchanged.
C20_AutofillFrame ==
  [][ \A i \in 1..Len(data.items), token \in CodeTokens :
        (CodeEnteredAt(i, token) /\ findRow(catalogo, token) # 0) =>
          LET r == catalogo[findRow(catalogo, token)] IN
          /\ data'.items[i] = [code |-> r.code, description |-> r.name,
                               kilos |-> C20_Number(r.kilos),
                               unitPrice |-> C20_Number(r.price_list),
                               discountPct |-> N(0), qty |-> data.items[i].qty]
          /\ Len(data'.items) = Len(data.items)
          /\ \A j \in 1..Len(data.items) : j # i => data'.items[j] = data.items[j]
          /\ data'.client = data.client /\ data'.issuer = data.issuer
          /\ data'.taxPct = data.taxPct ]_vars
\* an item filled from the catalog that kept the quantity typed before, next
\* to an item that still has its discount, on a quote with a client
C20_Witness ==
  /\ Len(data.items) = 2 /\ data.client.name # ""
  /\ data.items[1].code = catalogo[2].code /\ data.items[1].qty = N(2)
  /\ data.items[1].kilos = Q(3, 2) /\ data.items[1].discountPct = N(0)
  /\ data.items[2].code = catalogo[1].code /\ data.items[2].discountPct = N(50)
  /\ data.items[2].unitPrice = N(1990)

(* ------------------------ claims on a token without a match ------------ *)
\* autofillFromCatalog(i, token) returned at "if (!findRow) return": the items
\* are the ones the input's onChange left
C21_ItemsLeft(i, token) == data'.items = [data.items EXCEPT ![i].description = token]

\* C21 (first half): whenever the token matches no catalog row in any of the
\* five tests, autofillFromCatalog leaves the item list unchanged.
C21_NoMatchLeavesItems ==
  [][ \A i \in 1..Len(data.items), token \in TokenInputs :
        (DescriptionEnteredAt(i, token) /\ findRow(catalogo, token) = 0) =>
          C21_ItemsLeft(i, token) ]_vars

\* C21: autofillFromCatalog leaves the item list unchanged whenever the token
\* matches no catalog row, and in particular whenever the trimmed token is
\* empty: leaving an empty field never fills the item from the catalog.
C21_EmptyTokenNeverFills ==
  [][ \A i \in 1..Len(data.items), token \in TokenInputs :
        (DescriptionEnteredAt(i, token)
           /\ (findRow(catalogo, token) = 0 \/ Trim(token) = << >>)) =>
          C21_ItemsLeft(i, token) ]_vars

(* ------------------- specification: catalog viewer --------------------- *)
\* the viewer page as MountCatalogos leaves it: on a first visit, with the
\* URL of an earlier visit, or with a stored null
InitViewer ==
  /\ page = "catalogos" /\ crashed = FALSE
  /\ NegocioDefaults /\ catalog = {} /\ loads = << >>
  /\ clientes = << >> /\ catalogo = << >> /\ loadError = << >>
  /\ loadingData = FALSE /\ lastUpdated = << >> /\ qloads = << >>
  /\ kpiData = << >> /\ kpiLoad = "none"
  /\ data = DEFAULT_QUOTE
  /\ csvTable = << >> /\ csvText = << >> /\ csvOut = NoOutput
  /\ useGoogleViewer = TRUE
  /\ \/ /\ pdfUrl = << DEFAULT_CATALOGO_PDF_URL >>
        /\ storage = [EmptyStorage EXCEPT
                        !["catalogo.pdf.url"] = Json(DEFAULT_CATALOGO_PDF_URL)]
     \/ /\ pdfUrl = << DirectPdfUrl >>
        /\ storage = [EmptyStorage EXCEPT !["catalogo.pdf.url"] = Json(DirectPdfUrl)]
     \/ /\ pdfUrl = << >>
        /\ storage = [EmptyStorage EXCEPT !["catalogo.pdf.url"] = JsonNull]

NextViewer == SetPdfUrl \/ SetUseGoogleViewer

SpecViewer == InitViewer /\ [][NextViewer]_vars

(* ------------------------ claims on the catalog viewer ----------------- *)
\* the text of the URL field (empty for a stored null)
C22_Url == IF pdfUrl = << >> THEN << >> ELSE pdfUrl[1]
\* the positions where "/d/" is followed by a letter, a digit, "_" or "-"
C22_Starts(url) ==
  { p \in 1..(Len(url) - 3) :
      SubSeq(url, p, p + 2) = <<"/", "d", "/">> /\ url[p + 3] \in IdChars }
\* the id: the longest run of such characters after the first of these places
C22_Id(url) ==
  LET p == CHOOSE q \in C22_Starts(url) : \A r \in C22_Starts(url) : q <= r
      e == CHOOSE q \in (p + 3)..Len(url) :
             /\ \A k \in (p + 3)..q : url[k] \in IdChars
             /\ (q < Len(url) => url[q + 1] \notin IdChars)
  IN SubSeq(url, p + 3, e)
C22_Preview(id) ==
  <<"h", "t", "t", "p", "s", ":", "/", "/", "d", "r", "i", "v", "e", ".", "g", "o",
    "o", "g", "l", "e", ".", "c", "o", "m", "/", "f", "i", "l", "e", "/", "d", "/">>
  \o id \o <<"/", "p", "r", "e", "v", "i", "e", "w">>

\* C22: on the catalog viewer page, for a URL from which a Drive file id can
\* be extracted the embedded source is the Drive /preview URL of that id
\* whatever the state of the "Usar visor de Google" checkbox; for any other
\* non-empty URL it is the Google gview URL of the URL when the checkbox is on
\* and the URL itself when it is off; for an empty URL no viewer is embedded.
C22_EmbeddedSource ==
  (page = "catalogos" /\ ~crashed) =>
    IF C22_Starts(C22_Url) # {}
    THEN Viewer = [tag |-> "iframe", src |-> C22_Preview(C22_Id(C22_Url))]
    ELSE IF C22_Url # << >>
    THEN Viewer = [tag |-> "iframe",
                   src |-> IF useGoogleViewer
                           THEN GviewPrefix \o encodeURIComponent(C22_Url)
                           ELSE C22_Url]
    ELSE Viewer.tag = "div"
\* the checkbox was switched off on a URL that is not on Drive, then a URL with
\* a Drive id was typed: the viewer shows the /preview URL of the id
C22_Witness ==
  /\ page = "catalogos" /\ ~crashed
  /\ ~useGoogleViewer
  /\ C22_Url = <<"/", "d", "/", "d", "-">>
  /\ Viewer = [tag |-> "iframe", src |-> C22_Preview(<<"d", "-">>)]

====
